---- MODULE Spec2Model ----
(***************************************************************************)
(* Model of blsforme's systemd-boot Loader: Loader::new, sync,             *)
(* sync_entries, install, cleanup_stale_entries, and the Entry / Schema    *)
(* naming functions they use.                                              *)
(*                                                                         *)
(* Strings are sequences of characters (one-character TLA+ strings); the   *)
(* string literals of the source ("EFI", "vmlinuz", ".conf", "kernel-",    *)
(* ...) are kept as single tokens.  A path is a sequence of components,    *)
(* each a string without "/"; an absolute path starts with the empty       *)
(* component, so that PathStr renders it with a leading "/".  Option<T>    *)
(* is <<>> for None and <<v>> for Some(v).                                 *)
(***************************************************************************)
EXTENDS Integers, Sequences, FiniteSets, TLC

----------------------------------------------------------------------------
(* Bounds *)

\* kernel entries per sync_entries call
MaxEntries == 2
\* injected I/O failures per sync_entries call
MaxFaults == 1
\* paths handed to one discover_system_kernels call
MaxPaths == 3
\* consecutive sync_entries calls with the same inputs
MaxRuns == 2

----------------------------------------------------------------------------
(* Option, strings, paths *)

None == <<>>
Some(v) == <<v>>
IsSome(o) == o # <<>>
UnwrapOr(o, d) == IF o # <<>> THEN o[1] ELSE d

Range(s) == {s[k] : k \in 1..Len(s)}

\* str::starts_with
StartsWith(s, p) == Len(p) <= Len(s) /\ SubSeq(s, 1, Len(p)) = p

RECURSIVE Concat(_)
\* concatenation of a sequence of strings (Iterator::collect::<String>)
Concat(ss) == IF ss = <<>> THEN <<>> ELSE Head(ss) \o Concat(Tail(ss))

RECURSIVE JoinStr(_, _)
\* [String]::join(sep)
JoinStr(ss, sep) ==
    IF ss = <<>> THEN <<>>
    ELSE IF Len(ss) = 1 THEN ss[1]
    ELSE ss[1] \o sep \o JoinStr(Tail(ss), sep)

RECURSIVE SplitStr(_, _)
\* str::split(sep) for a one-character separator
SplitStr(s, sep) ==
    IF \A k \in 1..Len(s) : s[k] # sep THEN <<s>>
    ELSE LET k == CHOOSE j \in 1..Len(s) : s[j] = sep /\ \A m \in 1..(j - 1) : s[m] # sep
         IN  <<SubSeq(s, 1, k - 1)>> \o SplitStr(SubSeq(s, k + 1, Len(s)), sep)

RECURSIVE DecStr(_)
\* Display for a non-negative integer
DecStr(n) ==
    LET d == <<"0", "1", "2", "3", "4", "5", "6", "7", "8", "9">>
    IN  IF n < 10 THEN <<d[n + 1]>> ELSE DecStr(n \div 10) \o <<d[(n % 10) + 1]>>

\* Display for i32
FmtI32(n) == IF n < 0 THEN <<"-">> \o DecStr(0 - n) ELSE DecStr(n)

\* Path::to_string_lossy / Path::display
PathStr(p) == JoinStr(p, <<"/">>)

\* PathBuf::from(&str)
ParsePath(s) == SplitStr(s, "/")

IsAbsolute(p) == Len(p) > 0 /\ p[1] = <<>>

\* PathBuf::join: an absolute argument replaces the base
PathJoin(base, p) == IF IsAbsolute(p) THEN p ELSE base \o p

\* Path::file_name
file_name(p) == IF p = <<>> THEN None ELSE Some(p[Len(p)])

\* Path::parent
parent(p) == IF p = <<>> THEN None ELSE Some(SubSeq(p, 1, Len(p) - 1))

\* Path::starts_with (component-wise)
PathStartsWith(p, base) == Len(base) <= Len(p) /\ SubSeq(p, 1, Len(base)) = base

\* Path::strip_prefix
strip_prefix(p, base) ==
    IF PathStartsWith(p, base) THEN Some(SubSeq(p, Len(base) + 1, Len(p))) ELSE None

\* PathExt::join_insensitive with a string argument that may hold "/"
join_insensitive(base, s) == base \o ParsePath(s)

----------------------------------------------------------------------------
(* Schema (kernel.rs) *)

\* The three Schema variants as one record shape: name/id/pretty are the
\* os_release (or os_info identity) fields, namespace is Legacy's fixed
\* namespace, display and former are os_info.metadata.identity.{display,
\* former_identities[].id}.
Schema(kind, name, ident, pretty, namespace, display, former) ==
    [kind |-> kind, name |-> name, id |-> ident, pretty |-> pretty,
     namespace |-> namespace, display |-> display, former |-> former]

LegacySchema == Schema("Legacy", <<"N">>, <<"n">>, None, <<"c">>, <<>>, <<>>)
BlsformeSchema == Schema("Blsforme", <<"A">>, <<"a">>, Some(<<"P">>), <<>>, <<>>, <<>>)
OsInfoSchema == Schema("OsInfo", <<"A">>, <<"a">>, None, <<>>, <<"D">>, <<<<"s">>>>)
\* the schema of the former identity, used as a per-entry override
FormerSchema == Schema("Blsforme", <<"S">>, <<"s">>, None, <<>>, <<>>, <<>>)
\* another operating system on the same $BOOT whose id begins with ours
OtherSchema == Schema("Blsforme", <<"B">>, <<"a", "b">>, None, <<>>, <<>>, <<>>)

LoaderSchemas == {LegacySchema, BlsformeSchema, OsInfoSchema}
EntrySchemas == {FormerSchema}

os_name(s) == s.name

os_namespace(s) == IF s.kind = "Legacy" THEN s.namespace ELSE s.id

os_id(s) == s.id

os_display_name(s) == IF s.kind = "OsInfo" THEN Some(s.display) ELSE s.pretty

----------------------------------------------------------------------------
(* Kernel and Entry (kernel.rs, entry.rs) *)

AuxiliaryFile(path, kind) == [path |-> path, kind |-> kind]

Kernel(version, image, initrd, extras, variant) ==
    [version |-> version, image |-> image, initrd |-> initrd,
     extras |-> extras, variant |-> variant]

Entry(kernel, sysroot, cmdline, state_id, schema) ==
    [kernel |-> kernel, sysroot |-> sysroot, cmdline |-> cmdline,
     state_id |-> state_id, schema |-> schema]

CmdlineEntry(name, snippet) == [name |-> name, snippet |-> snippet]

\* entry.schema.as_ref().unwrap_or(schema)
effective_schema(e, schema) == UnwrapOr(e.schema, schema)

\* Entry::id
id(e, schema) ==
    LET eff == effective_schema(e, schema)
        n == IF eff.kind = "Legacy" THEN eff.name ELSE os_id(eff)
    IN  IF IsSome(e.state_id)
        THEN n \o <<"-">> \o e.kernel.version \o <<"-">> \o FmtI32(e.state_id[1])
        ELSE n \o <<"-">> \o e.kernel.version

\* Entry::installed_kernel_name: Option<String>
installed_kernel_name(e, schema) ==
    LET eff == effective_schema(e, schema)
    IN  IF eff.kind = "Legacy"
        THEN IF IsSome(file_name(e.kernel.image))
             THEN Some(<<"kernel-">> \o file_name(e.kernel.image)[1])
             ELSE None
        ELSE Some(e.kernel.version \o <<"/", "vmlinuz">>)

\* Entry::installed_asset_name: Option<String>
installed_asset_name(e, schema, asset) ==
    LET eff == effective_schema(e, schema)
    IN  IF eff.kind = "Legacy"
        THEN IF asset.kind = "InitRd" /\ IsSome(file_name(asset.path))
             THEN Some(<<"initrd-">> \o file_name(asset.path)[1])
             ELSE None
        ELSE IF ~IsSome(file_name(asset.path)) THEN None
             ELSE IF asset.kind = "InitRd"
                  THEN Some(e.kernel.version \o <<"/">> \o file_name(asset.path)[1])
                  ELSE None

----------------------------------------------------------------------------
(* Inputs: mounts, kernels, entries, source files *)

Mounts(esp, xbootldr) == [esp |-> esp, xbootldr |-> xbootldr]

EspMount == <<<<>>, <<"efi">>>>
XbootldrMount == <<<<>>, <<"boot">>>>

AllMounts == {Mounts(e, x) : e \in {None, Some(EspMount)}, x \in {None, Some(XbootldrMount)}}

\* kernel versions (uname -r); a version may itself contain "-"
Versions == {<<"6">>, <<"6", "-", "1">>}

KernelLib == <<<<"usr">>, <<"lib">>, <<"kernel">>>>

\* A kernel as discovery yields it for a schema kind.  abs: the paths carry
\* the root (as blsctl's glob produces them) or are relative to a sysroot.
\* A version without a release part ships one initrd, the others none.
DiscoveredKernel(kind, v, abs) ==
    LET base == IF abs THEN <<<<>>>> \o KernelLib ELSE KernelLib
    IN  IF kind = "Legacy"
        THEN Kernel(v, base \o <<<<"c", ".", "d", ".">> \o v>>,
                    IF Len(v) = 1
                    THEN <<AuxiliaryFile(base \o <<<<"initrd-", "c", ".", "d", ".">> \o v>>, "InitRd")>>
                    ELSE <<>>,
                    <<>>, Some(<<"d">>))
        ELSE Kernel(v, base \o <<v, <<"vmlinuz">>>>,
                    IF Len(v) = 1
                    THEN <<AuxiliaryFile(base \o <<v, <<"i", ".initrd">>>>, "InitRd")>>
                    ELSE <<>>,
                    <<>>, None)

\* system roots of package-manager states, by state id
StateRoot(n) == <<<<>>, <<"r">> \o DecStr(n)>>

StateIds == {1, 2}

Snippet == CmdlineEntry(<<"x", ".cmdline">>, <<"k">>)
Snippet2 == CmdlineEntry(<<"y", ".cmdline">>, <<"m">>)

\* the cmdline and excluded_snippets arguments of sync_entries: the base
\* cmdline holds an item that reads like the name of a snippet
BaseCmdline == <<<<"q">>, <<"x", ".cmdline">>>>
ExclusionLists == {<<>>, <<<<"x", ".cmdline">>>>}

\* Entries as their builders produce them: a plain entry of the running
\* system (absolute kernel paths, no sysroot), the same with a per-entry
\* schema (with_schema), and the entry of a package-manager state
\* (with_sysroot, with_state_id).
PlainEntry(schema, v, o) ==
    Entry(DiscoveredKernel(UnwrapOr(o, schema).kind, v, TRUE), None, <<Snippet, Snippet2>>, None, o)

StateEntry(schema, v, n) ==
    Entry(DiscoveredKernel(schema.kind, v, FALSE), Some(StateRoot(n)), <<>>, Some(n), None)

EntriesFor(schema) ==
    {PlainEntry(schema, v, None) : v \in Versions}
    \cup {PlainEntry(schema, <<"6">>, Some(s)) : s \in EntrySchemas}
    \cup {StateEntry(schema, <<"6">>, n) : n \in StateIds}
    \cup {StateEntry(schema, <<"6", "-", "1">>, 1)}

RECURSIVE SeqsUpTo(_, _)
SeqsUpTo(S, n) ==
    IF n = 0 THEN {<<>>}
    ELSE LET shorter == SeqsUpTo(S, n - 1)
         IN  shorter \cup {Append(q, x) : q \in {r \in shorter : Len(r) = n - 1}, x \in S}

\* content of a source file: every source path holds different bytes
SourceContent(path) == <<"bytes:">> \o PathStr(path)

----------------------------------------------------------------------------
(* systemd_boot::Loader, pure parts *)

\* LoaderNew preferring the ESP over the XBOOTLDR
LoaderNewEspFirst(m) ==
    IF IsSome(m.esp) THEN [ok |-> TRUE, boot_root |-> m.esp[1], err |-> <<>>]
    ELSE IF IsSome(m.xbootldr) THEN [ok |-> TRUE, boot_root |-> m.xbootldr[1], err |-> <<>>]
    ELSE [ok |-> FALSE, boot_root |-> <<>>, err |-> <<"MissingMount", "ESP (/efi)">>]

\* Loader::new: Ok(boot_root) or Err(MissingMount)
LoaderNew(m) ==
    IF IsSome(m.xbootldr) THEN [ok |-> TRUE, boot_root |-> m.xbootldr[1], err |-> <<>>]
    ELSE IF IsSome(m.esp) THEN [ok |-> TRUE, boot_root |-> m.esp[1], err |-> <<>>]
    ELSE [ok |-> FALSE, boot_root |-> <<>>, err |-> <<"MissingMount", "ESP (/efi)">>]

\* get_kernel_dir ignoring the entry's own schema
get_kernel_dir_of_loader(root, schema, e) ==
    join_insensitive(join_insensitive(root, <<"EFI">>), os_namespace(schema))

\* Loader::get_kernel_dir
get_kernel_dir(root, schema, e) ==
    join_insensitive(join_insensitive(root, <<"EFI">>), os_namespace(effective_schema(e, schema)))

\* {boot_root}/loader/entries
LoaderEntriesDir(root) == join_insensitive(join_insensitive(root, <<"loader">>), <<"entries">>)

\* install: loader_id
LoaderId(root, schema, e) ==
    join_insensitive(LoaderEntriesDir(root), id(e, effective_schema(e, schema)) \o <<".conf">>)

\* generate_entry emitting nothing where there are no initrds
generate_entry_no_blank(schema, asset_dir, cmdline, e) ==
    LET eff == effective_schema(e, schema)
        title == IF IsSome(os_display_name(eff))
                 THEN os_display_name(eff)[1] \o <<" (">> \o e.kernel.version \o <<")">>
                 ELSE os_name(eff) \o <<" (">> \o e.kernel.version \o <<")">>
        names == [k \in 1..Len(e.kernel.initrd) |-> installed_asset_name(e, eff, e.kernel.initrd[k])]
        initrd == Concat([k \in 1..Len(names) |->
                            IF IsSome(names[k])
                            THEN <<"\n", "initrd ", "/">> \o asset_dir \o <<"/">> \o names[k][1]
                            ELSE <<>>])
    IN  <<"title ">> \o title \o <<"\n">>
        \o <<"linux ", "/">> \o asset_dir \o <<"/">> \o installed_kernel_name(e, eff)[1]
        \o initrd \o <<"\n">>
        \o <<"options ">> \o cmdline \o <<"\n">>

\* Loader::generate_entry
generate_entry(schema, asset_dir, cmdline, e) ==
    LET eff == effective_schema(e, schema)
        names == [k \in 1..Len(e.kernel.initrd) |-> installed_asset_name(e, eff, e.kernel.initrd[k])]
        lines == [k \in 1..Len(names) |->
                    IF IsSome(names[k])
                    THEN <<"\n", "initrd ", "/">> \o asset_dir \o <<"/">> \o names[k][1]
                    ELSE <<>>]
        initrd == IF e.kernel.initrd = <<>> THEN <<"\n">> ELSE <<"\n">> \o Concat(lines)
        title == IF IsSome(os_display_name(eff))
                 THEN os_display_name(eff)[1] \o <<" (">> \o e.kernel.version \o <<")">>
                 ELSE os_name(eff) \o <<" (">> \o e.kernel.version \o <<")">>
        vmlinuz == installed_kernel_name(e, eff)[1]
    IN  <<"title ">> \o title \o <<"\n">>
        \o <<"linux ", "/">> \o asset_dir \o <<"/">> \o vmlinuz \o initrd \o <<"\n">>
        \o <<"options ">> \o cmdline \o <<"\n">>

\* install: the changeset, a sequence of <<source, dest>> pairs; None when
\* installed_kernel_name is None (MissingFile)
Changeset(root, schema, e) ==
    LET eff == effective_schema(e, schema)
        sysroot == UnwrapOr(e.sysroot, <<>>)
        kernel_dir == get_kernel_dir(root, schema, e)
        kname == installed_kernel_name(e, eff)
        withName == SelectSeq(e.kernel.initrd, LAMBDA a : IsSome(installed_asset_name(e, eff, a)))
        initrds == [k \in 1..Len(withName) |->
                      <<PathJoin(sysroot, withName[k].path),
                        join_insensitive(kernel_dir, installed_asset_name(e, eff, withName[k])[1])>>]
    IN  IF IsSome(kname)
        THEN Some(<<<<PathJoin(sysroot, e.kernel.image), join_insensitive(kernel_dir, kname[1])>>>>
                  \o initrds)
        ELSE None

\* file_utils::changed_files: the pairs whose destination is absent or holds
\* other content than the source
changed_files(d, pairs) ==
    SelectSeq(pairs, LAMBDA pr : pr[2] \notin DOMAIN d \/ d[pr[2]] # SourceContent(pr[1]))

\* the file system after writing a whole file (copy_atomic_vfat's rename,
\* fs::write)
WriteFile(d, path, content) ==
    [q \in DOMAIN d \cup {path} |-> IF q = path THEN content ELSE d[q]]

\* file_utils::copy_atomic_vfat
copy_atomic_vfat(d, source, dest) == WriteFile(d, dest, SourceContent(source))

\* fs::remove_file
remove_file(d, path) == [q \in DOMAIN d \ {path} |-> d[q]]

\* fs::remove_dir_all
remove_dir_all(d, tree) == [q \in {r \in DOMAIN d : ~PathStartsWith(r, tree)} |-> d[q]]

\* FullCmdline applying the exclusions to the base cmdline as well
FullCmdlineFilterAll(cmdline, excluded, e) ==
    LET kept == SelectSeq(e.cmdline, LAMBDA c : c.name \notin Range(excluded))
        entry_cmdline == [k \in 1..Len(kept) |-> kept[k].snippet]
    IN  JoinStr(SelectSeq(cmdline \o entry_cmdline, LAMBDA c : c \notin Range(excluded)), <<" ">>)

\* sync_entries: full_cmdline.join(" ")
FullCmdline(cmdline, excluded, e) ==
    LET kept == SelectSeq(e.cmdline, LAMBDA c : c.name \notin Range(excluded))
        entry_cmdline == [k \in 1..Len(kept) |-> kept[k].snippet]
    IN  JoinStr(cmdline \o entry_cmdline, <<" ">>)

\* LoaderConfig with the kernel directory left absolute (no strip_prefix)
LoaderConfigUnstripped(root, schema, cmdline, e) ==
    generate_entry(schema, PathStr(get_kernel_dir(root, schema, e)), cmdline, e)

\* install: the loader config written for an entry
LoaderConfig(root, schema, cmdline, e) ==
    generate_entry(schema, PathStr(strip_prefix(get_kernel_dir(root, schema, e), root)[1]), cmdline, e)

\* InstallResult tracking the namespace directory instead of the directory
\* of the installed vmlinuz
InstallResultOfNamespace(root, schema, e) ==
    [loader_conf |-> PathStr(LoaderId(root, schema, e)),
     kernel_dir |-> PathStr(get_kernel_dir(root, schema, e))]

\* install: the InstallResult
InstallResult(root, schema, e) ==
    [loader_conf |-> PathStr(LoaderId(root, schema, e)),
     kernel_dir |-> PathStr(parent(Changeset(root, schema, e)[1][1][2])[1])]

\* all_namespaces without the former identities
all_namespaces_current(schema) == {os_namespace(schema)}

\* cleanup_stale_entries: all_namespaces
all_namespaces(schema) ==
    IF schema.kind = "OsInfo" THEN Range(schema.former) \cup {schema.id}
    ELSE {os_namespace(schema)}

\* all_prefixes without the former identities
all_prefixes_current(schema) ==
    IF schema.kind = "Legacy" THEN {schema.name} ELSE {os_id(schema)}

\* cleanup_stale_entries: all_prefixes
all_prefixes(schema) ==
    IF schema.kind = "OsInfo" THEN Range(schema.former) \cup {schema.id}
    ELSE IF schema.kind = "Legacy" THEN {schema.name}
    ELSE {os_id(schema)}

\* loader_files without the prefix test
loader_files_unfiltered(d, root, schema) ==
    {f \in DOMAIN d : /\ Len(f) = Len(LoaderEntriesDir(root)) + 1
                      /\ PathStartsWith(f, LoaderEntriesDir(root))}

\* cleanup_stale_entries: loader_files
loader_files(d, root, schema) ==
    {f \in DOMAIN d : /\ Len(f) = Len(LoaderEntriesDir(root)) + 1
                      /\ PathStartsWith(f, LoaderEntriesDir(root))
                      /\ \E prefix \in all_prefixes(schema) : StartsWith(f[Len(f)], prefix)}

\* cleanup_stale_entries: kernel_dirs, the directories directly under
\* {boot_root}/EFI/{namespace}
kernel_dirs(d, root, schema) ==
    UNION {LET efi_dir == join_insensitive(join_insensitive(root, <<"EFI">>), ns)
           IN  {SubSeq(f, 1, Len(efi_dir) + 1) :
                   f \in {g \in DOMAIN d : PathStartsWith(g, efi_dir) /\ Len(g) >= Len(efi_dir) + 2}}
           : ns \in all_namespaces(schema)}

\* cleanup_stale_entries: obsolete_loader_confs
ObsoleteLoaderConfs(d, root, schema, installed) ==
    {f \in loader_files(d, root, schema) :
        ~\E k \in 1..Len(installed) : installed[k].loader_conf = PathStr(f)}

\* cleanup_stale_entries: obsolete_kernels
ObsoleteKernels(d, root, schema, installed) ==
    {f \in kernel_dirs(d, root, schema) :
        ~\E k \in 1..Len(installed) : installed[k].kernel_dir = PathStr(f)}

----------------------------------------------------------------------------
(* Characters: the order of String and Path, and to_lowercase *)

\* the characters that occur, in ASCII order
Ascii ==
    <<"-", ".", "/", "0", "1", "2", "3", "4", "5", "6", "7", "8", "9",
      "A", "B", "C", "D", "E", "F", "G", "H", "I", "J", "K", "L", "M",
      "N", "O", "P", "Q", "R", "S", "T", "U", "V", "W", "X", "Y", "Z", "_",
      "a", "b", "c", "d", "e", "f", "g", "h", "i", "j", "k", "l", "m",
      "n", "o", "p", "q", "r", "s", "t", "u", "v", "w", "x", "y", "z">>

Ord(c) == CHOOSE i \in 1..Len(Ascii) : Ascii[i] = c

\* char::to_lowercase
LowerChar(c) == IF Ord(c) \in Ord("A")..Ord("Z") THEN Ascii[Ord(c) + Ord("a") - Ord("A")] ELSE c

\* the characters of a token: of a literal of the source kept as one token,
\* or of a single character
Chars(t) ==
    CASE t = "usr" -> <<"u", "s", "r">>
      [] t = "lib" -> <<"l", "i", "b">>
      [] t = "kernel" -> <<"k", "e", "r", "n", "e", "l">>
      [] t = "vmlinuz" -> <<"v", "m", "l", "i", "n", "u", "z">>
      [] t = "System.map" -> <<"S", "y", "s", "t", "e", "m", ".", "m", "a", "p">>
      [] t = "System.map-" -> <<"S", "y", "s", "t", "e", "m", ".", "m", "a", "p", "-">>
      [] t = "boot.json" -> <<"b", "o", "o", "t", ".", "j", "s", "o", "n">>
      [] t = "config" -> <<"c", "o", "n", "f", "i", "g">>
      [] t = "config-" -> <<"c", "o", "n", "f", "i", "g", "-">>
      [] t = "cmdline-" -> <<"c", "m", "d", "l", "i", "n", "e", "-">>
      [] t = ".cmdline" -> <<".", "c", "m", "d", "l", "i", "n", "e">>
      [] t = ".initrd" -> <<".", "i", "n", "i", "t", "r", "d">>
      [] t = "initrd-" -> <<"i", "n", "i", "t", "r", "d", "-">>
      [] t = "kernel-" -> <<"k", "e", "r", "n", "e", "l", "-">>
      [] t = "EFI" -> <<"E", "F", "I">>
      [] OTHER -> <<t>>

\* a string character by character
Flat(s) == Concat([k \in 1..Len(s) |-> Chars(s[k])])

\* str::to_lowercase
to_lowercase(s) == [k \in 1..Len(Flat(s)) |-> LowerChar(Flat(s)[k])]

RECURSIVE CharsLeq(_, _)
\* the order of two character sequences: byte-wise lexicographic
CharsLeq(a, b) ==
    IF a = <<>> THEN TRUE
    ELSE IF b = <<>> THEN FALSE
    ELSE IF a[1] # b[1] THEN Ord(a[1]) < Ord(b[1])
    ELSE CharsLeq(Tail(a), Tail(b))

\* Ord for String
StrLeq(a, b) == CharsLeq(Flat(a), Flat(b))

RECURSIVE PathLeq(_, _)
\* Ord for Path: component by component
PathLeq(p, q) ==
    IF p = <<>> THEN TRUE
    ELSE IF q = <<>> THEN FALSE
    ELSE IF p[1] # q[1] THEN StrLeq(p[1], q[1])
    ELSE PathLeq(Tail(p), Tail(q))

\* the key of kernel.initrd / kernel.extras sorting:
\* path.display().to_string().to_lowercase()
LowerKeyLeq(a, b) == CharsLeq(to_lowercase(PathStr(a.path)), to_lowercase(PathStr(b.path)))

\* a <= b in the order named: that of String, of PathBuf, or of the
\* lowercased path of an AuxiliaryFile
Leq(order, a, b) ==
    CASE order = "String" -> StrLeq(a, b)
      [] order = "PathBuf" -> PathLeq(a, b)
      [] order = "lowercase" -> LowerKeyLeq(a, b)

RECURSIVE InsertBy(_, _, _)
\* x put into a sorted sequence after every element that is not greater
InsertBy(order, x, sorted) ==
    IF sorted = <<>> THEN <<x>>
    ELSE IF Leq(order, sorted[1], x) THEN <<sorted[1]>> \o InsertBy(order, x, Tail(sorted))
    ELSE <<x>> \o sorted

RECURSIVE SortBy(_, _)
\* a stable sort (slice::sort_by_key, and the iteration order of a BTreeSet)
SortBy(order, s) ==
    IF s = <<>> THEN <<>>
    ELSE InsertBy(order, s[Len(s)], SortBy(order, SubSeq(s, 1, Len(s) - 1)))

----------------------------------------------------------------------------
(* Kernel discovery (kernel.rs) *)

RECURSIVE SetToSeq(_)
\* the elements of a finite set, in some order
SetToSeq(S) ==
    IF S = {} THEN <<>>
    ELSE LET x == CHOOSE y \in S : TRUE IN <<x>> \o SetToSeq(S \ {x})

\* Path::file_name is Some: the path ends in a normal component
HasName(p) == p # <<>> /\ p[Len(p)] # <<>>

\* the index of the last element of a sequence that equals x
LastIndex(x, s) == CHOOSE k \in 1..Len(s) : s[k] = x /\ \A j \in (k + 1)..Len(s) : s[j] # x

\* legacy_kernels: file_name.split_at(namespace.len() + 1) or the assert
\* that follows it panics
LegacyPanics(namespace, fname) ==
    \/ Len(fname) < Len(namespace) + 1
    \/ fname[Len(namespace) + 1] # "."

\* legacy_kernels: what the candidate loop reads from a file name
\* {namespace}.{variant}.{full_version}: Some(variant, version) when the
\* rest has a "." and what follows its first "." has a "-"
LegacyParse(namespace, fname) ==
    LET right == SubSeq(fname, Len(namespace) + 2, Len(fname))
        dots == {k \in 1..Len(right) : right[k] = "."}
    IN  IF dots = {} THEN None
        ELSE LET d == CHOOSE k \in dots : \A j \in dots : k <= j
                 full_version == SubSeq(right, d + 1, Len(right))
             IN  IF \E k \in 1..Len(full_version) : full_version[k] = "-"
                 THEN Some([variant |-> SubSeq(right, 1, d - 1), version |-> full_version])
                 ELSE None

\* LegacyAux without the version-independent initrds
LegacyAuxVersionedOnly(namespace, version, variant, x) ==
    LET variant_str == <<".">> \o variant
        initrd_file == <<"initrd-">> \o namespace \o <<".">> \o variant \o <<".">> \o version
    IN  IF x = <<"System.map-">> \o version \o variant_str THEN "SystemMap"
        ELSE IF x = <<"cmdline-">> \o version \o variant_str THEN "Cmdline"
        ELSE IF x = <<"config-">> \o version \o variant_str THEN "Config"
        ELSE IF StartsWith(x, initrd_file) THEN "InitRd"
        ELSE ""

\* legacy_kernels: the kind a file name gets for a kernel, "" for none
LegacyAux(namespace, version, variant, x) ==
    LET variant_str == <<".">> \o variant
        indep_initrd == <<"initrd-">> \o namespace \o <<".">>
        initrd_file == <<"initrd-">> \o namespace \o <<".">> \o variant \o <<".">> \o version
    IN  IF x = <<"System.map-">> \o version \o variant_str THEN "SystemMap"
        ELSE IF x = <<"cmdline-">> \o version \o variant_str THEN "Cmdline"
        ELSE IF x = <<"config-">> \o version \o variant_str THEN "Config"
        ELSE IF x = initrd_file THEN "InitRd"
        ELSE IF StartsWith(x, initrd_file) THEN "InitRd"
        ELSE IF StartsWith(x, indep_initrd)
        THEN IF \E k \in (Len(indep_initrd) + 1)..Len(x) : x[k] = "." THEN "" ELSE "InitRd"
        ELSE ""

\* the auxiliary files of one kernel: the paths whose kind is not "", in
\* the order of the paths; kinds[k] is the kind of paths[k]
AuxFiles(paths, kinds) ==
    LET with == SelectSeq([k \in 1..Len(paths) |-> <<paths[k], kinds[k]>>], LAMBDA pk : pk[2] # "")
    IN  [k \in 1..Len(with) |-> AuxiliaryFile(with[k][1], with[k][2])]

\* kernel.initrd and kernel.extras of the auxiliary files found, each sorted
SortedInitrd(aux) == SortBy("lowercase", SelectSeq(aux, LAMBDA a : a.kind = "InitRd"))

\* SortedExtras without the sort
UnsortedExtras(aux) == SelectSeq(aux, LAMBDA a : a.kind # "InitRd")

SortedExtras(aux) == SortBy("lowercase", SelectSeq(aux, LAMBDA a : a.kind # "InitRd"))

\* Schema::legacy_kernels.  The kernels are the values of a BTreeMap keyed by
\* full_version: one per version, the last candidate of a version replacing
\* the earlier ones, in the order of the versions.
legacy_kernels(namespace, paths) ==
    LET cands == SelectSeq(paths, LAMBDA p : HasName(p) /\ StartsWith(p[Len(p)], namespace))
        found == SelectSeq(cands, LAMBDA p : IsSome(LegacyParse(namespace, p[Len(p)])))
        VersionOf(p) == LegacyParse(namespace, p[Len(p)])[1].version
        versions == SortBy("String", SetToSeq({VersionOf(found[k]) : k \in 1..Len(found)}))
        KernelOf(v) ==
            LET image == found[LastIndex(v, [k \in 1..Len(found) |-> VersionOf(found[k])])]
                variant == LegacyParse(namespace, image[Len(image)])[1].variant
                aux == AuxFiles(paths, [k \in 1..Len(paths) |-> LegacyAux(namespace, v, variant, paths[k][Len(paths[k])])])
            IN  Kernel(v, image, SortedInitrd(aux), SortedExtras(aux), Some(variant))
    IN  IF \E k \in 1..Len(cands) : LegacyPanics(namespace, cands[k][Len(cands[k])])
        THEN [ok |-> "panic", kernels |-> <<>>]
        ELSE IF versions # <<>> /\ \E k \in 1..Len(paths) : ~HasName(paths[k])
        THEN [ok |-> "InvalidFilesystem", kernels |-> <<>>]
        ELSE [ok |-> "Ok", kernels |-> [k \in 1..Len(versions) |-> KernelOf(versions[k])]]

\* BlsAux knowing the initrds only
BlsAuxInitrdOnly(filename) == IF filename[Len(filename)] = ".initrd" THEN "InitRd" ELSE ""

\* blsforme_kernels: the kind a file name gets, "" for none
BlsAux(filename) ==
    IF filename = <<"System.map">> THEN "SystemMap"
    ELSE IF filename = <<"boot.json">> THEN "BootJson"
    ELSE IF filename = <<"config">> THEN "Config"
    ELSE IF filename[Len(filename)] = ".initrd" THEN "InitRd"
    ELSE IF filename[Len(filename)] = ".cmdline" THEN "Cmdline"
    ELSE ""

\* blsforme_kernels: a vmlinuz whose parent directory has a name
IsKernelImage(p) == Len(p) >= 2 /\ p[Len(p)] = <<"vmlinuz">> /\ p[Len(p) - 1] # <<>>

\* Schema::blsforme_kernels.  The paths are walked as a BTreeSet, the kernels
\* are the values of a HashMap keyed by version: one per version, the last
\* vmlinuz of a version in path order replacing the earlier ones.  The values
\* are given here in the order of the versions; a HashMap yields them in any.
blsforme_kernels(paths) ==
    LET all_paths == SortBy("PathBuf", SetToSeq(Range(paths)))
        images == SelectSeq(all_paths, IsKernelImage)
        versions == SortBy("String", SetToSeq({images[k][Len(images[k]) - 1] : k \in 1..Len(images)}))
        KernelOf(v) ==
            LET image == images[LastIndex(v, [k \in 1..Len(images) |-> images[k][Len(images[k]) - 1]])]
                lepath == parent(image)[1]
                versioned_assets == SelectSeq(all_paths, LAMBDA p :
                    /\ ~(p # <<>> /\ p[Len(p)] = <<"vmlinuz">>)
                    /\ PathStartsWith(p, lepath)
                    /\ ~(p # <<>> /\ p[Len(p)] = v))
                aux == AuxFiles(versioned_assets, [k \in 1..Len(versioned_assets) |-> BlsAux(versioned_assets[k][Len(versioned_assets[k])])])
            IN  Kernel(v, image, SortedInitrd(aux), SortedExtras(aux), None)
    IN  IF \E k \in 1..Len(versions) :
              \E j \in 1..Len(all_paths) :
                 /\ PathStartsWith(all_paths[j], parent(KernelOf(versions[k]).image)[1])
                 /\ ~HasName(all_paths[j])
        THEN [ok |-> "InvalidFilesystem", kernels |-> <<>>]
        ELSE [ok |-> "Ok", kernels |-> [k \in 1..Len(versions) |-> KernelOf(versions[k])]]

\* the orders a HashMap may yield its values in
ValueOrders(s) ==
    {[k \in 1..Len(s) |-> s[f[k]]] :
        f \in {g \in [1..Len(s) -> 1..Len(s)] : \A i, j \in 1..Len(s) : g[i] = g[j] => i = j}}

\* Schema::discover_system_kernels
discover_system_kernels(s, paths) ==
    IF s.kind = "Legacy" THEN legacy_kernels(s.namespace, paths) ELSE blsforme_kernels(paths)

----------------------------------------------------------------------------
(* State *)

VARIABLES
    schema,                 \* Loader.schema
    mounts,                 \* Loader.mounts
    boot_root,              \* Loader.boot_root
    entries,                \* sync_entries argument
    base_cmdline,           \* sync_entries argument cmdline, collected
    exclusions,             \* sync_entries argument excluded_snippets, collected
    disk,                   \* the files on the ESP and XBOOTLDR: path -> content
    pc,                     \* position of the running sync_entries call
    cur,                    \* index of the entry being installed
    needs_writing,          \* install: copies still to do for entries[cur]
    installed_entries,      \* sync_entries: InstallResults so far
    obsolete_loader_confs,  \* cleanup_stale_entries: confs still to remove
    obsolete_kernels,       \* cleanup_stale_entries: trees still to remove
    ret,                    \* result of the last sync_entries call, <<>> while none
    sync_ret,               \* result of the last sync call, <<>> while none
    run,                    \* number of the sync_entries call (1-based)
    faults,                 \* I/O failures injected into the current call
    effects,                \* file-system calls of the current sync_entries call, in order
    disk0,                  \* the disk when the current sync_entries call began
    kernels_ret,            \* result of the last installed_kernels call, <<>> while none
    env_in,                 \* what BootEnvironment::new finds on the system
    env_pc,                 \* position in BootEnvironment::new
    env_log,                \* the ESP lookups BootEnvironment::new has made, in order
    bootenv,                \* the BootEnvironment under construction
    env_ret,                \* result of BootEnvironment::new, <<>> while none
    boot_part,              \* result of the last boot_partition call, <<>> while none
    new_ret,                \* result of the last Bootloader::new call, <<>> while none
    disc_paths,             \* discover_system_kernels argument paths, in iteration order
    disc_pc,                \* position in inspect_root's kernel discovery
    disc_ret,               \* result of discover_system_kernels, <<>> while none
    probe_in,               \* what get_rootfs_device finds in /sys, /dev and the mount table
    probe_ret               \* result of get_rootfs_device, <<>> while none

vars == <<schema, mounts, boot_root, entries, base_cmdline, exclusions, disk, pc, cur,
          needs_writing, installed_entries, obsolete_loader_confs, obsolete_kernels,
          ret, sync_ret, run, faults, effects, disk0, kernels_ret,
          env_in, env_pc, env_log, bootenv, env_ret, boot_part, new_ret,
          disc_paths, disc_pc, disc_ret, probe_in, probe_ret>>

discs == <<disc_paths, disc_pc, disc_ret>>

probes == <<probe_in, probe_ret>>

envs == <<env_in, env_pc, env_log, bootenv, env_ret, boot_part, new_ret>>

\* everything of a constructed Loader's run
loader_run == <<schema, entries, base_cmdline, exclusions, disk, pc, cur,
                needs_writing, installed_entries, obsolete_loader_confs, obsolete_kernels,
                ret, sync_ret, run, faults, effects, disk0, kernels_ret>>

inputs == <<schema, mounts, boot_root, entries, base_cmdline, exclusions>>

\* one file-system call: op is "copy", "conf", "remove_file" or "remove_dir_all",
\* entry the index of the entry it is made for (0 in cleanup), ok its outcome
Effect(op, entry, ok) == [op |-> op, entry |-> entry, ok |-> ok]

EmptyDisk == [q \in {} |-> <<>>]

\* no kernel discovery and no rootfs probe is under way
DiscOff == disc_paths = <<>> /\ disc_pc = "off" /\ disc_ret = <<>>

ProbeOff == probe_in = <<>> /\ probe_ret = <<>>

\* no BootEnvironment is being built
EnvOff ==
    /\ env_in = <<>>
    /\ env_pc = "off"
    /\ env_log = <<>>
    /\ bootenv = <<>>
    /\ env_ret = <<>>
    /\ boot_part = <<>>
    /\ new_ret = <<>>

\* no Loader is built
LoaderUnbuilt ==
    /\ mounts = Mounts(None, None)
    /\ boot_root = <<>>
    /\ entries = <<>>
    /\ base_cmdline = <<>>
    /\ exclusions = <<>>
    /\ disk = EmptyDisk
    /\ pc = "unbuilt"
    /\ cur = 0
    /\ needs_writing = <<>>
    /\ installed_entries = <<>>
    /\ obsolete_loader_confs = {}
    /\ obsolete_kernels = {}
    /\ ret = <<>>
    /\ sync_ret = <<>>
    /\ run = 0
    /\ faults = 0
    /\ effects = <<>>
    /\ disk0 = EmptyDisk
    /\ kernels_ret = <<>>

RECURSIVE CopyAll(_, _)
\* install: "for (source, dest) in needs_writing { copy_atomic_vfat }"
CopyAll(d, pairs) ==
    IF pairs = <<>> THEN d
    ELSE CopyAll(copy_atomic_vfat(d, pairs[1][1], pairs[1][2]), Tail(pairs))

\* Loader::install run to completion without failure
install(d, root, s, cmdline, e) ==
    WriteFile(CopyAll(d, changed_files(d, Changeset(root, s, e)[1])),
              LoaderId(root, s, e), LoaderConfig(root, s, cmdline, e))

RECURSIVE InstallEach(_, _, _, _)
InstallEach(d, root, ss, v) ==
    IF ss = <<>> THEN d
    ELSE InstallEach(install(d, root, ss[1], <<"q">>,
                             Entry(DiscoveredKernel(ss[1].kind, v, TRUE), None, <<>>, None, None)),
                     root, Tail(ss), v)

\* $BOOT as earlier installations left it: kernel 5 of this OS under each
\* schema it has used, and of another OS
PriorDisk(root) ==
    InstallEach(EmptyDisk, root, <<LegacySchema, BlsformeSchema, FormerSchema, OtherSchema>>, <<"5">>)

Init ==
    /\ schema \in LoaderSchemas
    /\ mounts \in {m \in AllMounts : LoaderNew(m).ok}
    /\ boot_root = LoaderNew(mounts).boot_root
    /\ entries \in SeqsUpTo(EntriesFor(schema), MaxEntries)
    /\ base_cmdline = BaseCmdline
    /\ exclusions \in ExclusionLists
    /\ disk \in {EmptyDisk, PriorDisk(boot_root)}
    /\ pc = "idle"
    /\ cur = 0
    /\ needs_writing = <<>>
    /\ installed_entries = <<>>
    /\ obsolete_loader_confs = {}
    /\ obsolete_kernels = {}
    /\ ret = <<>>
    /\ sync_ret = <<>>
    /\ run = 0
    /\ faults = 0
    /\ effects = <<>>
    /\ disk0 = disk
    /\ kernels_ret = <<>>
    /\ env_in = <<>>
    /\ env_pc = "off"
    /\ env_log = <<>>
    /\ bootenv = <<>>
    /\ env_ret = <<>>
    /\ boot_part = <<>>
    /\ new_ret = <<>>
    /\ DiscOff
    /\ ProbeOff

----------------------------------------------------------------------------
(* Loader::sync *)

BootAsset == <<<<>>, <<"usr">>, <<"systemd-bootx64.efi">>>>
OtherAsset == <<<<>>, <<"usr">>, <<"other.efi">>>>

AssetLists == {<<>>, <<OtherAsset>>, <<OtherAsset, BootAsset>>}

\* SyncTargets without the systemd copy
SyncTargetsBootOnly(x64_efi, esp) ==
    <<<<x64_efi, join_insensitive(join_insensitive(join_insensitive(esp, <<"EFI">>), <<"Boot">>),
                                  <<"BOOTX64.EFI">>)>>>>

\* sync: the two places the boot loader binary is copied to
SyncTargets(x64_efi, esp) ==
    <<<<x64_efi, join_insensitive(join_insensitive(join_insensitive(esp, <<"EFI">>), <<"Boot">>),
                                  <<"BOOTX64.EFI">>)>>,
      <<x64_efi, join_insensitive(join_insensitive(join_insensitive(esp, <<"EFI">>), <<"systemd">>),
                                  <<"systemd-bootx64.efi">>)>>>>

\* sync: {boot_root}/loader/loader.conf
LoaderConfPath(root) == join_insensitive(join_insensitive(root, <<"loader">>), <<"loader.conf">>)

\* sync: the default pattern text
default_pattern(s) == <<"default ", "\"">> \o os_namespace(s) \o <<"*", "\"", "\n">>

\* Sync writing loader.conf before it looks for the ESP
SyncConfBeforeEsp(assets, failAt) ==
    /\ pc = "idle"
    /\ sync_ret = <<>>
    /\ LET found == SelectSeq(assets, LAMBDA a : a # <<>> /\ a[Len(a)] = <<"systemd-bootx64.efi">>)
           written == WriteFile(disk, LoaderConfPath(boot_root), default_pattern(schema))
       IN  IF found = <<>>
           THEN /\ failAt = 0
                /\ sync_ret' = <<"Err", "MissingFile", "systemd-bootx64.efi">>
                /\ disk' = disk
           ELSE IF ~IsSome(mounts.esp)
           THEN /\ failAt = 0
                /\ sync_ret' = <<"Err", "MissingMount", "ESP (/efi)">>
                /\ disk' = written
           ELSE LET todo == changed_files(written, SyncTargets(found[1], mounts.esp[1]))
                IN  IF failAt > 0
                    THEN /\ failAt <= Len(todo)
                         /\ disk' = CopyAll(written, SubSeq(todo, 1, failAt - 1))
                         /\ sync_ret' = <<"Err", "Io">>
                    ELSE IF failAt < 0
                    THEN /\ disk' = disk
                         /\ sync_ret' = <<"Err", "Io">>
                    ELSE /\ disk' = CopyAll(written, todo)
                         /\ sync_ret' = <<"Ok">>
    /\ UNCHANGED <<envs, discs, probes, kernels_ret, inputs, pc, cur, needs_writing, installed_entries, obsolete_loader_confs,
                   obsolete_kernels, ret, run, faults, effects, disk0>>

\* Loader::sync as one step.  failAt = 0: no I/O failure; failAt = k > 0: the
\* k-th copy that is needed fails; failAt = -1: writing loader.conf (or
\* creating its directory) fails.
Sync(assets, failAt) ==
    /\ pc = "idle"
    /\ sync_ret = <<>>
    /\ LET found == SelectSeq(assets, LAMBDA a : a # <<>> /\ a[Len(a)] = <<"systemd-bootx64.efi">>)
       IN  IF found = <<>>
           THEN /\ failAt = 0
                /\ sync_ret' = <<"Err", "MissingFile", "systemd-bootx64.efi">>
                /\ disk' = disk
           ELSE IF ~IsSome(mounts.esp)
           THEN /\ failAt = 0
                /\ sync_ret' = <<"Err", "MissingMount", "ESP (/efi)">>
                /\ disk' = disk
           ELSE LET todo == changed_files(disk, SyncTargets(found[1], mounts.esp[1]))
                IN  IF failAt > 0
                    THEN /\ failAt <= Len(todo)
                         /\ disk' = CopyAll(disk, SubSeq(todo, 1, failAt - 1))
                         /\ sync_ret' = <<"Err", "Io">>
                    ELSE IF failAt < 0
                    THEN /\ disk' = CopyAll(disk, todo)
                         /\ sync_ret' = <<"Err", "Io">>
                    ELSE /\ disk' = WriteFile(CopyAll(disk, todo), LoaderConfPath(boot_root),
                                              default_pattern(schema))
                         /\ sync_ret' = <<"Ok">>
    /\ UNCHANGED <<envs, discs, probes, kernels_ret, inputs, pc, cur, needs_writing, installed_entries, obsolete_loader_confs,
                   obsolete_kernels, ret, run, faults, effects, disk0>>

----------------------------------------------------------------------------
(* Loader::sync_entries, one file-system operation per step *)

\* where the loop of sync_entries continues with entry k
LoopAt(k) == IF k <= Len(entries) THEN "install" ELSE "cleanup"

\* the call: base_cmdline and exclusions are collected, installed_entries = vec![]
SyncEntries ==
    /\ \/ pc = "idle" /\ sync_ret \in {<<>>, <<"Ok">>}
       \/ pc = "done" /\ ret = <<"Ok">> /\ faults = 0
    /\ run < MaxRuns
    /\ run' = run + 1
    /\ pc' = LoopAt(1)
    /\ cur' = 1
    /\ needs_writing' = <<>>
    /\ installed_entries' = <<>>
    /\ obsolete_loader_confs' = {}
    /\ obsolete_kernels' = {}
    /\ ret' = <<>>
    /\ faults' = 0
    /\ effects' = <<>>
    /\ disk0' = disk
    /\ kernels_ret' = <<>>
    /\ UNCHANGED <<envs, discs, probes, inputs, disk, sync_ret>>

\* an error return of sync_entries
Fail(err) ==
    /\ pc' = "done"
    /\ ret' = err
    /\ needs_writing' = <<>>

\* install, up to "let needs_writing = changed_files(...)"
InstallBegin ==
    /\ pc = "install"
    /\ LET cs == Changeset(boot_root, schema, entries[cur])
       IN  IF IsSome(cs)
           THEN /\ needs_writing' = changed_files(disk, cs[1])
                /\ pc' = "copy"
                /\ ret' = ret
           ELSE Fail(<<"Err", "MissingFile", "vmlinuz">>)
    /\ UNCHANGED <<envs, discs, probes, kernels_ret, inputs, disk, cur, installed_entries, obsolete_loader_confs, obsolete_kernels,
                   sync_ret, run, faults, effects, disk0>>

\* install: one copy_atomic_vfat(source, dest)
InstallCopy ==
    /\ pc = "copy"
    /\ needs_writing # <<>>
    /\ disk' = copy_atomic_vfat(disk, needs_writing[1][1], needs_writing[1][2])
    /\ needs_writing' = Tail(needs_writing)
    /\ effects' = Append(effects, Effect("copy", cur, TRUE))
    /\ UNCHANGED <<envs, discs, probes, kernels_ret, inputs, pc, cur, installed_entries, obsolete_loader_confs, obsolete_kernels,
                   ret, sync_ret, run, faults, disk0>>

\* InstallCopyFail with the error logged and the next entry taken up
InstallCopyFailContinues ==
    /\ pc = "copy"
    /\ needs_writing # <<>>
    /\ faults < MaxFaults
    /\ faults' = faults + 1
    /\ effects' = Append(effects, Effect("copy", cur, FALSE))
    /\ needs_writing' = <<>>
    /\ cur' = cur + 1
    /\ pc' = LoopAt(cur + 1)
    /\ UNCHANGED <<envs, discs, probes, kernels_ret, inputs, disk, installed_entries, obsolete_loader_confs, obsolete_kernels,
                   ret, sync_ret, run, disk0>>

\* install: copy_atomic_vfat fails, "?" returns the Io error
InstallCopyFail ==
    /\ pc = "copy"
    /\ needs_writing # <<>>
    /\ faults < MaxFaults
    /\ faults' = faults + 1
    /\ effects' = Append(effects, Effect("copy", cur, FALSE))
    /\ Fail(<<"Err", "Io", "copy">>)
    /\ UNCHANGED <<envs, discs, probes, kernels_ret, inputs, disk, cur, installed_entries, obsolete_loader_confs, obsolete_kernels,
                   sync_ret, run, disk0>>

\* InstallWriteConf with the .conf written before the copies are done
InstallWriteConfBeforeCopies ==
    /\ pc = "copy"
    /\ disk' = WriteFile(disk, LoaderId(boot_root, schema, entries[cur]),
                         LoaderConfig(boot_root, schema,
                                      FullCmdline(base_cmdline, exclusions, entries[cur]),
                                      entries[cur]))
    /\ installed_entries' = Append(installed_entries, InstallResult(boot_root, schema, entries[cur]))
    /\ cur' = cur + 1
    /\ pc' = LoopAt(cur + 1)
    /\ effects' = Append(effects, Effect("conf", cur, TRUE))
    /\ UNCHANGED <<envs, discs, probes, kernels_ret, inputs, needs_writing, obsolete_loader_confs, obsolete_kernels,
                   ret, sync_ret, run, faults, disk0>>

\* install, after the copies: create loader/entries, build the InstallResult,
\* fs::write the .conf; then sync_entries pushes the result and loops
InstallWriteConf ==
    /\ pc = "copy"
    /\ needs_writing = <<>>
    /\ disk' = WriteFile(disk, LoaderId(boot_root, schema, entries[cur]),
                         LoaderConfig(boot_root, schema,
                                      FullCmdline(base_cmdline, exclusions, entries[cur]),
                                      entries[cur]))
    /\ installed_entries' = Append(installed_entries, InstallResult(boot_root, schema, entries[cur]))
    /\ cur' = cur + 1
    /\ pc' = LoopAt(cur + 1)
    /\ effects' = Append(effects, Effect("conf", cur, TRUE))
    /\ UNCHANGED <<envs, discs, probes, kernels_ret, inputs, needs_writing, obsolete_loader_confs, obsolete_kernels,
                   ret, sync_ret, run, faults, disk0>>

\* install: fs::create_dir_all or fs::write fails
InstallWriteConfFail ==
    /\ pc = "copy"
    /\ needs_writing = <<>>
    /\ faults < MaxFaults
    /\ faults' = faults + 1
    /\ effects' = Append(effects, Effect("conf", cur, FALSE))
    /\ Fail(<<"Err", "Io", "conf">>)
    /\ UNCHANGED <<envs, discs, probes, kernels_ret, inputs, disk, cur, installed_entries, obsolete_loader_confs, obsolete_kernels,
                   sync_ret, run, disk0>>

\* cleanup_stale_entries, up to the two "obsolete" lists
CleanupScan ==
    /\ pc = "cleanup"
    /\ obsolete_loader_confs' = ObsoleteLoaderConfs(disk, boot_root, schema, installed_entries)
    /\ obsolete_kernels' = ObsoleteKernels(disk, boot_root, schema, installed_entries)
    /\ pc' = "remove"
    /\ UNCHANGED <<envs, discs, probes, kernels_ret, inputs, disk, cur, needs_writing, installed_entries, ret, sync_ret, run,
                   faults, effects, disk0>>

\* cleanup_stale_entries: one fs::remove_file(conf); read_dir fixes no order
RemoveConf ==
    /\ pc = "remove"
    /\ \E conf \in obsolete_loader_confs :
          /\ disk' = remove_file(disk, conf)
          /\ obsolete_loader_confs' = obsolete_loader_confs \ {conf}
    /\ effects' = Append(effects, Effect("remove_file", 0, TRUE))
    /\ UNCHANGED <<envs, discs, probes, kernels_ret, inputs, pc, cur, needs_writing, installed_entries, obsolete_kernels,
                   ret, sync_ret, run, faults, disk0>>

\* RemoveConfFail returning the error of fs::remove_file
RemoveConfFailAborts ==
    /\ pc = "remove"
    /\ faults < MaxFaults
    /\ \E conf \in obsolete_loader_confs :
          obsolete_loader_confs' = obsolete_loader_confs \ {conf}
    /\ faults' = faults + 1
    /\ effects' = Append(effects, Effect("remove_file", 0, FALSE))
    /\ Fail(<<"Err", "Io", "remove_file">>)
    /\ UNCHANGED <<envs, discs, probes, kernels_ret, inputs, disk, cur, installed_entries, obsolete_kernels,
                   sync_ret, run, disk0>>

\* cleanup_stale_entries: fs::remove_file fails, the error is logged
RemoveConfFail ==
    /\ pc = "remove"
    /\ faults < MaxFaults
    /\ \E conf \in obsolete_loader_confs :
          obsolete_loader_confs' = obsolete_loader_confs \ {conf}
    /\ faults' = faults + 1
    /\ effects' = Append(effects, Effect("remove_file", 0, FALSE))
    /\ UNCHANGED <<envs, discs, probes, kernels_ret, inputs, disk, pc, cur, needs_writing, installed_entries, obsolete_kernels,
                   ret, sync_ret, run, disk0>>

\* RemoveTree not waiting for the removal of the confs
RemoveTreeBeforeConfs ==
    /\ pc = "remove"
    /\ \E tree \in obsolete_kernels :
          /\ disk' = remove_dir_all(disk, tree)
          /\ obsolete_kernels' = obsolete_kernels \ {tree}
    /\ effects' = Append(effects, Effect("remove_dir_all", 0, TRUE))
    /\ UNCHANGED <<envs, discs, probes, kernels_ret, inputs, pc, cur, needs_writing, installed_entries, obsolete_loader_confs,
                   ret, sync_ret, run, faults, disk0>>

\* cleanup_stale_entries: one fs::remove_dir_all(tree), after every conf
RemoveTree ==
    /\ pc = "remove"
    /\ obsolete_loader_confs = {}
    /\ \E tree \in obsolete_kernels :
          /\ disk' = remove_dir_all(disk, tree)
          /\ obsolete_kernels' = obsolete_kernels \ {tree}
    /\ effects' = Append(effects, Effect("remove_dir_all", 0, TRUE))
    /\ UNCHANGED <<envs, discs, probes, kernels_ret, inputs, pc, cur, needs_writing, installed_entries, obsolete_loader_confs,
                   ret, sync_ret, run, faults, disk0>>

\* cleanup_stale_entries: fs::remove_dir_all fails, the error is logged
RemoveTreeFail ==
    /\ pc = "remove"
    /\ obsolete_loader_confs = {}
    /\ faults < MaxFaults
    /\ \E tree \in obsolete_kernels :
          obsolete_kernels' = obsolete_kernels \ {tree}
    /\ faults' = faults + 1
    /\ effects' = Append(effects, Effect("remove_dir_all", 0, FALSE))
    /\ UNCHANGED <<envs, discs, probes, kernels_ret, inputs, disk, pc, cur, needs_writing, installed_entries, obsolete_loader_confs,
                   ret, sync_ret, run, disk0>>

\* cleanup_stale_entries returns Ok(()), and so does sync_entries
SyncEntriesReturn ==
    /\ pc = "remove"
    /\ obsolete_loader_confs = {}
    /\ obsolete_kernels = {}
    /\ pc' = "done"
    /\ ret' = <<"Ok">>
    /\ UNCHANGED <<envs, discs, probes, kernels_ret, inputs, disk, cur, needs_writing, installed_entries, obsolete_loader_confs,
                   obsolete_kernels, sync_ret, run, faults, effects, disk0>>

\* installed_kernels: "if let Ok(kernels) = ... { Ok(kernels) } else { Ok(vec![]) }"
KernelsOrEmpty(r) ==
    IF r.ok = "panic" THEN <<"panic">>
    ELSE IF r.ok = "Ok" THEN <<"Ok", r.kernels>>
    ELSE <<"Ok", <<>>>>

\* Loader::installed_kernels: the entries of every directory that lies
\* directly in {boot_root}/EFI/{os_namespace}, handed to
\* discover_system_kernels, whose error becomes an empty list
installed_kernels(d, root, s) ==
    LET base_kernel_dir == join_insensitive(join_insensitive(root, <<"EFI">>), os_namespace(s))
        all_paths == {SubSeq(f, 1, Len(base_kernel_dir) + 2) :
                         f \in {g \in DOMAIN d : /\ PathStartsWith(g, base_kernel_dir)
                                                 /\ Len(g) >= Len(base_kernel_dir) + 2}}
    IN  IF ~\E f \in DOMAIN d : PathStartsWith(f, base_kernel_dir) /\ Len(f) > Len(base_kernel_dir)
        THEN <<"Err", "Io">>
        ELSE KernelsOrEmpty(discover_system_kernels(s, SetToSeq(all_paths)))

\* a call of installed_kernels on the Loader, between sync_entries calls;
\* the kernels of a HashMap come in any order
InstalledKernels ==
    /\ pc \in {"idle", "done"}
    /\ kernels_ret = <<>>
    /\ \E r \in {installed_kernels(disk, boot_root, schema)} :
           IF r[1] = "Ok" /\ schema.kind # "Legacy"
           THEN \E ks \in ValueOrders(r[2]) : kernels_ret' = <<"Ok", ks>>
           ELSE kernels_ret' = r
    /\ UNCHANGED <<envs, discs, probes, inputs, disk, pc, cur, needs_writing, installed_entries,
                   obsolete_loader_confs, obsolete_kernels, ret, sync_ret, run, faults, effects, disk0>>

Next ==
    \/ \E assets \in AssetLists, failAt \in -1..2 : Sync(assets, failAt)
    \/ SyncEntries
    \/ InstallBegin
    \/ InstallCopy
    \/ InstallCopyFail
    \/ InstallWriteConf
    \/ InstallWriteConfFail
    \/ CleanupScan
    \/ RemoveConf
    \/ RemoveConfFail
    \/ RemoveTree
    \/ RemoveTreeFail
    \/ SyncEntriesReturn
    \/ InstalledKernels

Spec == Init /\ [][Next]_vars

----------------------------------------------------------------------------
(* BootEnvironment::new, boot_partition and Bootloader::new (bootenv.rs,  *)
(* bootloader/mod.rs)                                                      *)

BlsEspDevice == <<<<>>, <<"dev">>, <<"sda1">>>>
GptEspDevice == <<<<>>, <<"dev">>, <<"sdb1">>>>
XbootldrDevice == <<<<>>, <<"dev">>, <<"sda2">>>>
RootDisk == <<<<>>, <<"dev">>, <<"sdb">>>>

\* What the system holds: whether {vfs}/sys/firmware/efi exists, the kind of
\* config.root, the outcome of the BLS variable lookup, the rootfs parent
\* disk if known, the outcome of the GPT scans, and what is mounted.
EnvInputs ==
    [efi : BOOLEAN,
     root : {"Native", "Image"},
     bls : {<<"Ok", BlsEspDevice>>, <<"Err", "BootLoaderProtocol">>},
     disk_parent : {None, Some(RootDisk)},
     gpt : {<<"Ok", GptEspDevice>>, <<"Err", "NoEsp">>, <<"Err", "Gpt">>},
     xbootldr : {<<"Ok", XbootldrDevice>>, <<"Err", "NoXbootldr">>},
     esp_mounted : BOOLEAN,
     xbootldr_mounted : BOOLEAN]

BootEnvironment(xbootldr, esp, firmware, esp_mountpoint, xboot_mountpoint) ==
    [xbootldr |-> xbootldr, esp |-> esp, firmware |-> firmware,
     esp_mountpoint |-> esp_mountpoint, xboot_mountpoint |-> xboot_mountpoint]

\* BootEnvironment::determine_esp_by_bls
determine_esp_by_bls(firmware, in) ==
    IF firmware = "Bios" THEN <<"Err", "Unsupported">> ELSE in.bls

\* BootEnvironment::determine_esp_by_gpt
determine_esp_by_gpt(disk_parent, in) == in.gpt

\* Result::ok
OkOf(r) == IF r[1] = "Ok" THEN Some(r[2]) ELSE None

\* BootEnvironment::boot_partition
boot_partition(b) == IF IsSome(b.xbootldr) THEN b.xbootldr ELSE b.esp

EnvInit ==
    /\ env_in \in EnvInputs
    /\ env_pc = "firmware"
    /\ env_log = <<>>
    /\ bootenv = BootEnvironment(None, None, "Bios", None, None)
    /\ env_ret = <<>>
    /\ boot_part = <<>>
    /\ new_ret = <<>>
    /\ mounts = Mounts(None, None)
    /\ boot_root = <<>>
    /\ schema = BlsformeSchema
    /\ entries = <<>>
    /\ base_cmdline = <<>>
    /\ exclusions = <<>>
    /\ disk = EmptyDisk
    /\ pc = "unbuilt"
    /\ cur = 0
    /\ needs_writing = <<>>
    /\ installed_entries = <<>>
    /\ obsolete_loader_confs = {}
    /\ obsolete_kernels = {}
    /\ ret = <<>>
    /\ sync_ret = <<>>
    /\ run = 0
    /\ faults = 0
    /\ effects = <<>>
    /\ disk0 = EmptyDisk
    /\ kernels_ret = <<>>
    /\ DiscOff
    /\ ProbeOff

\* new: firmware is Uefi iff {vfs}/sys/firmware/efi exists
EnvDetectFirmware ==
    /\ env_pc = "firmware"
    /\ bootenv' = [bootenv EXCEPT !.firmware = IF env_in.efi THEN "Uefi" ELSE "Bios"]
    /\ env_pc' = "bls"
    /\ UNCHANGED <<loader_run, discs, probes, mounts, boot_root, env_in, env_log, env_ret, boot_part, new_ret>>

\* the lookups a determine_esp_by_bls call makes: the call itself and, past
\* the firmware check, the read of the boot loader's EFI variables
BlsLookups(firmware) == IF firmware = "Bios" THEN <<"bls">> ELSE <<"bls", "efivars">>

\* EnvEspFromBls querying the boot loader interface in image mode too
EnvEspFromBlsAlways ==
    /\ env_pc = "bls"
    /\ bootenv' = [bootenv EXCEPT !.esp = OkOf(determine_esp_by_bls(bootenv.firmware, env_in))]
    /\ env_log' = env_log \o BlsLookups(bootenv.firmware)
    /\ env_pc' = "gpt"
    /\ UNCHANGED <<loader_run, discs, probes, mounts, boot_root, env_in, env_ret, boot_part, new_ret>>

\* new: esp_from_bls, None in image mode without querying
EnvEspFromBls ==
    /\ env_pc = "bls"
    /\ bootenv' = [bootenv EXCEPT !.esp =
                      IF env_in.root = "Image" THEN None
                      ELSE OkOf(determine_esp_by_bls(bootenv.firmware, env_in))]
    /\ env_log' = IF env_in.root = "Image" THEN env_log
                  ELSE env_log \o BlsLookups(bootenv.firmware)
    /\ env_pc' = "gpt"
    /\ UNCHANGED <<loader_run, discs, probes, mounts, boot_root, env_in, env_ret, boot_part, new_ret>>

\* new: esp = esp_from_bls.or_else(|| determine_esp_by_gpt(&disk_parent?, config).ok())
EnvEspFromGpt ==
    /\ env_pc = "gpt"
    /\ bootenv' = [bootenv EXCEPT !.esp =
                      IF IsSome(bootenv.esp) THEN bootenv.esp
                      ELSE IF ~IsSome(env_in.disk_parent) THEN None
                      ELSE OkOf(determine_esp_by_gpt(env_in.disk_parent[1], env_in))]
    /\ env_log' = IF IsSome(bootenv.esp) \/ ~IsSome(env_in.disk_parent) THEN env_log
                  ELSE Append(env_log, "gpt")
    /\ env_pc' = "check"
    /\ UNCHANGED <<loader_run, discs, probes, mounts, boot_root, env_in, env_ret, boot_part, new_ret>>

\* EnvCheckEsp without the NoEsp check
EnvCheckEspUnchecked ==
    /\ env_pc = "check"
    /\ IF ~IsSome(bootenv.esp)
       THEN /\ env_ret' = <<"Ok">>
            /\ env_pc' = "built"
            /\ bootenv' = BootEnvironment(None, bootenv.esp, bootenv.firmware, None, None)
       ELSE /\ env_ret' = env_ret
            /\ env_pc' = "xbootldr"
            /\ bootenv' = [bootenv EXCEPT !.esp_mountpoint =
                              IF env_in.esp_mounted THEN Some(EspMount) ELSE None]
    /\ UNCHANGED <<loader_run, discs, probes, mounts, boot_root, env_in, env_log, boot_part, new_ret>>

\* new: Err(NoEsp) for UEFI without ESP; the early Ok without ESP; else the
\* ESP's mountpoint is looked up
EnvCheckEsp ==
    /\ env_pc = "check"
    /\ IF bootenv.firmware = "Uefi" /\ ~IsSome(bootenv.esp)
       THEN /\ env_ret' = <<"Err", "NoEsp">>
            /\ env_pc' = "failed"
            /\ bootenv' = bootenv
       ELSE IF ~IsSome(bootenv.esp)
       THEN /\ env_ret' = <<"Ok">>
            /\ env_pc' = "built"
            /\ bootenv' = BootEnvironment(None, bootenv.esp, bootenv.firmware, None, None)
       ELSE /\ env_ret' = env_ret
            /\ env_pc' = "xbootldr"
            /\ bootenv' = [bootenv EXCEPT !.esp_mountpoint =
                              IF env_in.esp_mounted THEN Some(EspMount) ELSE None]
    /\ UNCHANGED <<loader_run, discs, probes, mounts, boot_root, env_in, env_log, boot_part, new_ret>>

\* new: xbootldr = discover_xbootldr(...).ok(), its mountpoint, Ok(Self {..})
EnvDiscoverXbootldr ==
    /\ env_pc = "xbootldr"
    /\ bootenv' = [bootenv EXCEPT
                      !.xbootldr = OkOf(env_in.xbootldr),
                      !.xboot_mountpoint =
                          IF IsSome(OkOf(env_in.xbootldr)) /\ env_in.xbootldr_mounted
                          THEN Some(XbootldrMount) ELSE None]
    /\ env_ret' = <<"Ok">>
    /\ env_pc' = "built"
    /\ UNCHANGED <<loader_run, discs, probes, mounts, boot_root, env_in, env_log, boot_part, new_ret>>

\* a call of BootEnvironment::boot_partition on the value new returned
BootPartition ==
    /\ env_pc = "built"
    /\ boot_part = <<>>
    /\ boot_part' = Some(boot_partition(bootenv))
    /\ UNCHANGED <<loader_run, discs, probes, mounts, boot_root, env_in, env_pc, env_log, bootenv, env_ret, new_ret>>

\* Bootloader::new(schema, assets, mounts, firmware): Loader::new for Uefi,
\* unimplemented!() for Bios
BootloaderNew(m) ==
    /\ env_pc = "built"
    /\ new_ret = <<>>
    /\ mounts' = m
    /\ IF bootenv.firmware = "Uefi"
       THEN /\ boot_root' = LoaderNew(m).boot_root
            /\ new_ret' = IF LoaderNew(m).ok THEN <<"Ok">> ELSE <<"Err">> \o LoaderNew(m).err
       ELSE /\ boot_root' = boot_root
            /\ new_ret' = <<"panic", "not implemented">>
    /\ UNCHANGED <<loader_run, discs, probes, env_in, env_pc, env_log, bootenv, env_ret, boot_part>>

EnvNext ==
    \/ EnvDetectFirmware
    \/ EnvEspFromBls
    \/ EnvEspFromGpt
    \/ EnvCheckEsp
    \/ EnvDiscoverXbootldr
    \/ BootPartition
    \/ \E m \in AllMounts : BootloaderNew(m)

EnvSpec == EnvInit /\ [][EnvNext]_vars

----------------------------------------------------------------------------
(* inspect_root: discover_system_kernels on the globbed paths, then the     *)
(* variant of each kernel from its boot.json (blsctl main.rs)              *)

\* what the globs {root}/usr/lib/kernel/* and {root}/usr/lib/kernel/*/* yield
LibFile(name) == <<<<>>>> \o KernelLib \o <<name>>
VersionFile(v, name) == <<<<>>>> \o KernelLib \o <<v, name>>

\* What usr/lib/kernel/* holds under the Legacy layout: kernels of namespace
\* c (two variants of one version, a second version), their System.map,
\* cmdline, config and initrds, a version-independent initrd, a name without
\* release, a name that starts with the namespace without being a kernel,
\* and the namespace alone
LegacyCandidates ==
    {LibFile(n) : n \in {<<"c", ".", "d", ".", "6", "-", "1">>,
                         <<"c", ".", "e", ".", "6", "-", "1">>,
                         <<"c", ".", "d", ".", "7", "-", "1">>,
                         <<"System.map-", "6", "-", "1", ".", "d">>,
                         <<"cmdline-", "6", "-", "1", ".", "d">>,
                         <<"config-", "6", "-", "1", ".", "d">>,
                         <<"initrd-", "c", ".", "d", ".", "6", "-", "1">>,
                         <<"initrd-", "c", ".", "d", ".", "6", "-", "1", ".", "x">>,
                         <<"initrd-", "c", ".", "x">>,
                         <<"c", ".", "d", ".", "6">>,
                         <<"c", "x">>,
                         <<"c">>}}

\* What usr/lib/kernel/* and usr/lib/kernel/*/* hold under the Blsforme
\* layout: a version directory and the files in it, a second version, a
\* vmlinuz directly in usr/lib/kernel and one in a directory named kernel
BlsCandidates ==
    {LibFile(<<"6">>)}
    \cup {VersionFile(<<"6">>, n) : n \in {<<"vmlinuz">>, <<"System.map">>, <<"boot.json">>,
                                          <<"config">>, <<"a", ".initrd">>, <<"B", ".initrd">>,
                                          <<"x", ".cmdline">>}}
    \cup {VersionFile(<<"7">>, n) : n \in {<<"vmlinuz">>, <<"boot.json">>}}
    \cup {LibFile(<<"vmlinuz">>), VersionFile(<<"kernel">>, <<"vmlinuz">>)}

DiscCandidates(s) == IF s.kind = "Legacy" THEN LegacyCandidates ELSE BlsCandidates

\* the sequences of up to n different elements of S
RECURSIVE DistinctSeqs(_, _)
DistinctSeqs(S, n) ==
    IF n = 0 THEN {<<>>}
    ELSE LET shorter == DistinctSeqs(S, n - 1)
         IN  shorter \cup UNION {{Append(q, x) : x \in S \ Range(q)} :
                                    q \in {r \in shorter : Len(r) = n - 1}}

\* the text of a boot.json: well-formed in the directory of version 6,
\* without its variant field in that of version 7
BootJsonText(path) ==
    IF path[Len(path) - 1] = <<"6">>
    THEN <<"{", "\"name\":", "k", ",", "\"version\":", "6", ",", "\"variant\":", "w", "}">>
    ELSE <<"{", "\"name\":", "k", ",", "\"version\":", "7", "}">>

\* the value of a field of a JSON object text
JsonField(text, key) ==
    LET i == CHOOSE k \in 1..Len(text) : text[k] = key
        j == CHOOSE k \in (i + 1)..Len(text) :
                 text[k] \in {",", "}"} /\ \A m \in (i + 1)..(k - 1) : text[m] \notin {",", "}"}
    IN  SubSeq(text, i + 1, j - 1)

\* BootJSON::try_from: Some(name, version, variant), None on a parse error
BootJSON(text) ==
    IF \A key \in {"\"name\":", "\"version\":", "\"variant\":"} : key \in Range(text)
    THEN Some([name |-> JsonField(text, "\"name\":"),
               version |-> JsonField(text, "\"version\":"),
               variant |-> JsonField(text, "\"variant\":")])
    ELSE None

DiscInit ==
    /\ schema \in LoaderSchemas
    /\ disc_paths \in DistinctSeqs(DiscCandidates(schema), MaxPaths)
    /\ disc_pc = "start"
    /\ disc_ret = <<>>
    /\ LoaderUnbuilt
    /\ EnvOff
    /\ ProbeOff

\* inspect_root: schema.discover_system_kernels(paths)
Discover ==
    /\ disc_pc = "start"
    /\ LET r == discover_system_kernels(schema, disc_paths)
       IN  \E ks \in (IF schema.kind = "Legacy" THEN {r.kernels} ELSE ValueOrders(r.kernels)) :
              disc_ret' = Some([ok |-> r.ok, kernels |-> ks])
    /\ disc_pc' = "discovered"
    /\ UNCHANGED <<loader_run, mounts, boot_root, envs, probes, disc_paths>>

\* the first boot.json among a kernel's extras, None without one
BootJsonOf(k) ==
    LET js == SelectSeq(k.extras, LAMBDA e : e.kind = "BootJson")
    IN  IF js = <<>> THEN None ELSE Some(js[1].path)

\* inspect_root: "If a boot JSON is provided, augment the records"; a
\* boot.json that does not parse ends inspect_root with the error
AugmentVariants ==
    /\ disc_pc = "discovered"
    /\ disc_ret[1].ok = "Ok"
    /\ LET ks == disc_ret[1].kernels
           Bad(k) == IsSome(BootJsonOf(k)) /\ ~IsSome(BootJSON(BootJsonText(BootJsonOf(k)[1])))
       IN  IF \E k \in 1..Len(ks) : Bad(ks[k])
           THEN /\ disc_ret' = Some([ok |-> "Json", kernels |-> <<>>])
                /\ disc_pc' = "failed"
           ELSE /\ disc_ret' = Some([ok |-> "Ok", kernels |->
                        [k \in 1..Len(ks) |->
                            IF IsSome(BootJsonOf(ks[k]))
                            THEN [ks[k] EXCEPT !.variant =
                                     Some(BootJSON(BootJsonText(BootJsonOf(ks[k])[1]))[1].variant)]
                            ELSE ks[k]]])
                /\ disc_pc' = "inspected"
    /\ UNCHANGED <<loader_run, mounts, boot_root, envs, probes, disc_paths>>

DiscNext ==
    \/ Discover
    \/ AugmentVariants

DiscSpec == DiscInit /\ [][DiscNext]_vars

----------------------------------------------------------------------------
(* Probe::get_rootfs_device (topology, disk/probe.rs) *)

DevPath(n) == <<<<>>, <<"dev">>, <<n>>>>

Devices == {"dm-0", "md0", "sda2", "sdb1"}

\* {sysfs}/class/block/{device}/slaves in read_dir order, for the layouts: a
\* plain partition, dm-crypt on a partition, dm on a two-disk md array, dm
\* on two partitions
Slaves(layout, n) ==
    CASE layout = "crypt" /\ n = "dm-0" -> <<"sda2">>
      [] layout = "raid" /\ n = "dm-0" -> <<"md0">>
      [] layout = "raid" /\ n = "md0" -> <<"sda2", "sdb1">>
      [] layout = "span" /\ n = "dm-0" -> <<"sda2", "sdb1">>
      [] OTHER -> <<>>

\* What the probe finds: the mountpoint asked for, the outcome of
\* get_device_from_mountpoint, the slaves layout, the PartUUID that
\* get_device_parent and get_device_guid give, and the devices for which
\* BlockDevice::new fails
ProbeInputs ==
    [path : {<<<<>>>>, <<<<>>, <<"m">>>>},
     device : {<<"Ok", "dm-0">>, <<"Ok", "sda2">>, <<"Err", "UnknownMount">>},
     layout : {"plain", "crypt", "raid", "span"},
     guid : {None, Some(<<"g">>)},
     unreadable : {{}} \cup {{n} : n \in Devices}]

RECURSIVE get_device_chain(_, _)
\* Probe::get_device_chain: the backing devices, depth first, without the
\* device itself
get_device_chain(layout, n) ==
    LET slaves == Slaves(layout, n)
    IN  Concat([k \in 1..Len(slaves) |->
                  <<DevPath(slaves[k])>> \o get_device_chain(layout, slaves[k])])

\* BlockDevice::new(probe, name, mountpoint, ..): a device without children
\* and guid, or an error
BlockDevice(in, dev, mountpoint) ==
    IF dev[Len(dev)][1] \in in.unreadable THEN <<"Err", "Superblock">>
    ELSE <<"Ok", [name |-> PathStr(dev), mountpoint |-> mountpoint, guid |-> None, children |-> <<>>]>>

\* Probe::get_rootfs_device
get_rootfs_device(in) ==
    IF in.device[1] # "Ok" THEN <<"Err", in.device[2]>>
    ELSE LET device == DevPath(in.device[2])
             all == <<device>> \o get_device_chain(in.layout, in.device[2])
             tip == all[Len(all)]
             custodials == SubSeq(all, 1, Len(all) - 1)
             block == BlockDevice(in, tip, None)
             made == [k \in 1..Len(custodials) |->
                        IF custodials[k] = device
                        THEN BlockDevice(in, custodials[k], Some(in.path))
                        ELSE BlockDevice(in, custodials[k], None)]
             kept == SelectSeq(made, LAMBDA r : r[1] = "Ok")
         IN  IF block[1] # "Ok" THEN block
             ELSE <<"Ok", [block[2] EXCEPT !.children = [k \in 1..Len(kept) |-> kept[k][2]],
                                           !.guid = in.guid]>>

ProbeInit ==
    /\ probe_in \in ProbeInputs
    /\ probe_ret = <<>>
    /\ schema = BlsformeSchema
    /\ LoaderUnbuilt
    /\ EnvOff
    /\ DiscOff

\* a call of get_rootfs_device(path)
GetRootfsDevice ==
    /\ probe_ret = <<>>
    /\ probe_ret' = get_rootfs_device(probe_in)
    /\ UNCHANGED <<loader_run, mounts, boot_root, envs, discs, probe_in>>

ProbeNext == GetRootfsDevice

ProbeSpec == ProbeInit /\ [][ProbeNext]_vars

----------------------------------------------------------------------------
(* Reading $BOOT back *)

\* the lines of a text file
Lines(text) == SplitStr(text, "\n")

\* the path, below root, that the `linux` line of a loader config names;
\* None when the text has no such line
LinuxTarget(root, text) ==
    LET ls == SelectSeq(Lines(text), LAMBDA l : l # <<>> /\ l[1] = "linux ")
    IN  IF ls = <<>> THEN None ELSE Some(root \o Tail(ParsePath(Tail(ls[1]))))

\* a directory exists when a file lies below it
DirExists(d, dir) == \E f \in DOMAIN d : PathStartsWith(f, dir) /\ Len(f) > Len(dir)

\* the entry's schema when set, else the Loader's
Eff(e) == IF e.schema # <<>> THEN e.schema[1] ELSE schema

\* {boot_root}/EFI/{ns} of an entry
EfiDirOf(e) ==
    boot_root \o <<<<"EFI">>, IF Eff(e).kind = "Legacy" THEN Eff(e).namespace ELSE Eff(e).id>>

\* where an entry's kernel is installed: {version}/vmlinuz, or for Legacy
\* the flat kernel-{basename of the image}
InstalledKernelOf(e) ==
    IF Eff(e).kind = "Legacy"
    THEN EfiDirOf(e) \o <<<<"kernel-">> \o e.kernel.image[Len(e.kernel.image)]>>
    ELSE EfiDirOf(e) \o <<e.kernel.version, <<"vmlinuz">>>>

\* {boot_root}/loader/entries/{id}.conf of an entry
ConfOf(e) ==
    boot_root \o <<<<"loader">>, <<"entries">>,
                   (IF Eff(e).kind = "Legacy" THEN Eff(e).name ELSE Eff(e).id)
                   \o <<"-">> \o e.kernel.version
                   \o (IF e.state_id # <<>> THEN <<"-">> \o FmtI32(e.state_id[1]) ELSE <<>>)
                   \o <<".conf">>>>

Returned(r) == pc = "done" /\ ret = r

HasEffect(op, ok) == \E k \in 1..Len(effects) : effects[k].op = op /\ effects[k].ok = ok

----------------------------------------------------------------------------
(* Claims *)

\* every .conf with a known prefix names, in its `linux` line, a file that exists
LiveEntriesHaveKernels(d) ==
    \A f \in loader_files(d, boot_root, schema) :
        /\ IsSome(LinuxTarget(boot_root, d[f]))
        /\ LinuxTarget(boot_root, d[f])[1] \in DOMAIN d

IsInstallOp(x) == x.op \in {"copy", "conf"}
IsRemoveOp(x) == x.op \in {"remove_file", "remove_dir_all"}

\* C2: the file-system calls of sync_entries come in this order: entries in
\* list order; within an entry its copies, then its .conf, which is written
\* only once every pair of the changeset is in place and not at all when a
\* copy failed; removals only after the .conf of every entry has been written
C2_CopiesThenConfThenCleanup ==
    /\ \A j, k \in 1..Len(effects) :
          j < k =>
            /\ (IsInstallOp(effects[j]) /\ IsInstallOp(effects[k]))
                  => effects[j].entry <= effects[k].entry
            /\ (effects[j].op = "conf" /\ effects[k].op = "copy")
                  => effects[j].entry < effects[k].entry
            /\ IsRemoveOp(effects[j]) => IsRemoveOp(effects[k])
            /\ ~(effects[j].op = "copy" /\ ~effects[j].ok)
    /\ \A k \in 1..Len(effects) :
          IsRemoveOp(effects[k]) =>
              \A n \in 1..Len(entries) : \E j \in 1..(k - 1) : effects[j] = Effect("conf", n, TRUE)
    /\ (effects # <<>> /\ effects[Len(effects)] = Effect("conf", cur - 1, TRUE)) =>
          /\ InstalledKernelOf(entries[cur - 1]) \in DOMAIN disk
          /\ \A pr \in Range(Changeset(boot_root, schema, entries[cur - 1])[1]) :
                pr[2] \in DOMAIN disk /\ disk[pr[2]] = SourceContent(pr[1])

\* C2 witness: cleanup removes something after two entries were installed,
\* the second with a copy
C2_Witness ==
    /\ Len(entries) = 2
    /\ \E k \in 1..Len(effects) : effects[k] = Effect("copy", 2, TRUE)
    /\ HasEffect("remove_dir_all", TRUE)

\* the namespaces and prefixes cleanup knows: the current id and, for OsInfo,
\* the former ones; for Legacy the fixed namespace and os_release.name
KnownNamespaces ==
    IF schema.kind = "OsInfo" THEN {schema.id} \cup Range(schema.former)
    ELSE IF schema.kind = "Legacy" THEN {schema.namespace} ELSE {schema.id}

KnownPrefixes ==
    IF schema.kind = "OsInfo" THEN {schema.id} \cup Range(schema.former)
    ELSE IF schema.kind = "Legacy" THEN {schema.name} ELSE {schema.id}

\* the .conf files of loader/entries whose name has a known prefix
KnownConfs(d) ==
    {f \in DOMAIN d : /\ Len(f) = Len(boot_root) + 3
                      /\ SubSeq(f, 1, Len(f) - 1) = boot_root \o <<<<"loader">>, <<"entries">>>>
                      /\ \E p \in KnownPrefixes : StartsWith(f[Len(f)], p)}

\* the directories, and the plain files, directly under EFI/{ns} of a known namespace
KnownKernelDirs(d) ==
    {SubSeq(f, 1, Len(boot_root) + 3) :
        f \in {g \in DOMAIN d : /\ Len(g) > Len(boot_root) + 3
                                /\ g[Len(boot_root) + 1] = <<"EFI">>
                                /\ SubSeq(g, 1, Len(boot_root)) = boot_root
                                /\ g[Len(boot_root) + 2] \in KnownNamespaces}}

KnownKernelFiles(d) ==
    {g \in DOMAIN d : /\ Len(g) = Len(boot_root) + 3
                      /\ g[Len(boot_root) + 1] = <<"EFI">>
                      /\ SubSeq(g, 1, Len(boot_root)) = boot_root
                      /\ g[Len(boot_root) + 2] \in KnownNamespaces}

\* a .conf corresponds to the kernel directory of the entry it was written
\* for: the directory that holds the entry's installed kernel file
KernelDirOf(e) == SubSeq(InstalledKernelOf(e), 1, Len(InstalledKernelOf(e)) - 1)

ConfHasKernelDir(d, f) ==
    \E n \in 1..Len(entries) : ConfOf(entries[n]) = f /\ DirExists(d, KernelDirOf(entries[n]))

KernelDirHasConf(d, dir) ==
    \E n \in 1..Len(entries) : KernelDirOf(entries[n]) = dir /\ ConfOf(entries[n]) \in DOMAIN d

KernelFileHasConf(d, g) ==
    \E n \in 1..Len(entries) : InstalledKernelOf(entries[n]) = g /\ ConfOf(entries[n]) \in DOMAIN d

\* cleanup_stale_entries has returned and none of its removals failed
CleanedUp == Returned(<<"Ok">>) /\ ~HasEffect("remove_file", FALSE) /\ ~HasEffect("remove_dir_all", FALSE)

LinuxLine(path) == <<"linux ">> \o Concat([k \in 1..(Len(path) - Len(boot_root)) |->
                                             <<"/">> \o path[Len(boot_root) + k]])

HasLine(text, line) == \E k \in 1..Len(Lines(text)) : Lines(text)[k] = line

\* C4 as claimed: after sync_entries every entry has
\* EFI/{ns}/{version}/vmlinuz on $BOOT and its .conf names exactly that path
C4_Original ==
    Returned(<<"Ok">>) =>
        \A n \in 1..Len(entries) :
            LET e == entries[n]
                vmlinuz == EfiDirOf(e) \o <<e.kernel.version, <<"vmlinuz">>>>
            IN  /\ vmlinuz \in DOMAIN disk
                /\ ConfOf(e) \in DOMAIN disk
                /\ HasLine(disk[ConfOf(e)], LinuxLine(vmlinuz))

\* no later entry of the list is written to the same .conf
LastWithItsId(n) == \A m \in (n + 1)..Len(entries) : ConfOf(entries[m]) # ConfOf(entries[n])

\* C4 amended: after sync_entries every entry has its installed kernel on
\* $BOOT, EFI/{ns}/{version}/vmlinuz under Blsforme and OsInfo and the flat
\* EFI/{ns}/kernel-{image basename} under Legacy, and its .conf names
\* exactly that path in its only `linux` line, unless a later entry of the
\* list has the same id and so overwrote the .conf
C4_InstalledKernelIsReferenced ==
    Returned(<<"Ok">>) =>
        \A n \in 1..Len(entries) :
            LET e == entries[n]
            IN  /\ InstalledKernelOf(e) \in DOMAIN disk
                /\ ConfOf(e) \in DOMAIN disk
                /\ LastWithItsId(n) =>
                      /\ HasLine(disk[ConfOf(e)], LinuxLine(InstalledKernelOf(e)))
                      /\ LinuxTarget(boot_root, disk[ConfOf(e)]) = Some(InstalledKernelOf(e))

\* C4 witness: one call installed a Legacy entry that has a state id and an
\* entry without state id whose own schema is Blsforme, each keeping its .conf
C4_Witness ==
    /\ Returned(<<"Ok">>)
    /\ \E n \in 1..Len(entries) : /\ Eff(entries[n]).kind = "Legacy"
                                   /\ entries[n].state_id # <<>>
                                   /\ LastWithItsId(n)
    /\ \E n \in 1..Len(entries) : /\ Eff(entries[n]).kind # "Legacy"
                                   /\ entries[n].state_id = <<>>
                                   /\ LastWithItsId(n)

\* C5 as claimed: the second of two sync_entries calls with the same inputs
\* makes no file-system write
C5_SecondRunWritesNothing == run = 2 => effects = <<>>

\* the .conf files of loader/entries whose name starts with a former id,
\* and the kernel directories under EFI/{f} of a former id f
FormerConfs(d) ==
    {f \in DOMAIN d : /\ Len(f) = Len(boot_root) + 3
                      /\ SubSeq(f, 1, Len(f) - 1) = boot_root \o <<<<"loader">>, <<"entries">>>>
                      /\ \E p \in Range(schema.former) : StartsWith(f[Len(f)], p)}

FormerKernelDirs(d) ==
    {SubSeq(f, 1, Len(boot_root) + 3) :
        f \in {g \in DOMAIN d : /\ Len(g) > Len(boot_root) + 3
                                /\ g[Len(boot_root) + 1] = <<"EFI">>
                                /\ SubSeq(g, 1, Len(boot_root)) = boot_root
                                /\ g[Len(boot_root) + 2] \in Range(schema.former)}}

WrittenInThisCall(f) == \E n \in 1..Len(entries) : ConfOf(entries[n]) = f
InstalledInThisCall(dir) == \E n \in 1..Len(entries) : KernelDirOf(entries[n]) = dir

\* the entries installed under the current identity keep their artefacts
CurrentArtefactsPresent ==
    \A n \in 1..Len(entries) :
        entries[n].schema = <<>> =>
            /\ ConfOf(entries[n]) \in DOMAIN disk
            /\ boot_root \o <<<<"EFI">>, schema.id, entries[n].kernel.version, <<"vmlinuz">>>>
                  \in DOMAIN disk

SyncArtefactsPresent ==
    /\ mounts.esp # <<>>
    /\ mounts.esp[1] \o <<<<"EFI">>, <<"Boot">>, <<"BOOTX64.EFI">>>> \in DOMAIN disk
    /\ mounts.esp[1] \o <<<<"EFI">>, <<"systemd">>, <<"systemd-bootx64.efi">>>> \in DOMAIN disk
    /\ boot_root \o <<<<"loader">>, <<"loader.conf">>>> \in DOMAIN disk

C8_StatesOfOneVersionCoexist ==
    Returned(<<"Ok">>) =>
        \A m, n \in 1..Len(entries) :
            (/\ m # n
             /\ entries[m].kernel.version = entries[n].kernel.version
             /\ entries[m].state_id # <<>>
             /\ entries[n].state_id # <<>>
             /\ entries[m].state_id # entries[n].state_id) =>
                /\ ConfOf(entries[m]) # ConfOf(entries[n])
                /\ ConfOf(entries[m]) \in DOMAIN disk
                /\ LinuxTarget(boot_root, disk[ConfOf(entries[m])]) # <<>>
                /\ LinuxTarget(boot_root, disk[ConfOf(entries[m])])[1] \in DOMAIN disk
                /\ disk[LinuxTarget(boot_root, disk[ConfOf(entries[m])])[1]]
                      = SourceContent(PathJoin(UnwrapOr(entries[m].sysroot, <<>>),
                                               entries[m].kernel.image))

\* the title an entry's schema gives it
TitleOf(e) ==
    (IF Eff(e).kind = "OsInfo" THEN Eff(e).display
     ELSE IF Eff(e).pretty # <<>> THEN Eff(e).pretty[1] ELSE Eff(e).name)
    \o <<" (">> \o e.kernel.version \o <<")">>

\* where an initrd of an entry is installed
InstalledInitrdOf(e, a) ==
    IF Eff(e).kind = "Legacy"
    THEN EfiDirOf(e) \o <<<<"initrd-">> \o a.path[Len(a.path)]>>
    ELSE EfiDirOf(e) \o <<e.kernel.version, a.path[Len(a.path)]>>

InitrdLine(path) == <<"initrd ">> \o Concat([k \in 1..(Len(path) - Len(boot_root)) |->
                                               <<"/">> \o path[Len(boot_root) + k]])

\* C9: install names everything of an entry after the entry's own schema
\* when it has one and after the Loader's otherwise: on writing the .conf of
\* entries[cur], the file written is {id}.conf of that schema, its title,
\* `linux` and `initrd` lines are that schema's, the files they name are on
\* $BOOT under EFI/{namespace of that schema}, the InstallResult names the
\* same paths, and no other file (of another entry) is touched
C9_PerEntrySchemaOverride ==
    [][Len(installed_entries') = Len(installed_entries) + 1 =>
        LET e == entries[cur]
        IN  /\ ConfOf(e) \in DOMAIN disk'
            /\ Lines(disk'[ConfOf(e)])[1] = <<"title ">> \o TitleOf(e)
            /\ Lines(disk'[ConfOf(e)])[2] = LinuxLine(InstalledKernelOf(e))
            /\ InstalledKernelOf(e) \in DOMAIN disk'
            /\ \A k \in 1..Len(e.kernel.initrd) :
                  /\ InstalledInitrdOf(e, e.kernel.initrd[k]) \in DOMAIN disk'
                  /\ HasLine(disk'[ConfOf(e)], InitrdLine(InstalledInitrdOf(e, e.kernel.initrd[k])))
            /\ installed_entries'[Len(installed_entries')]
                  = [loader_conf |-> PathStr(ConfOf(e)), kernel_dir |-> PathStr(KernelDirOf(e))]
            /\ \A f \in DOMAIN disk' \ {ConfOf(e)} : f \in DOMAIN disk /\ disk'[f] = disk[f]
            /\ DOMAIN disk \subseteq DOMAIN disk'
      ]_vars

\* C9 witness: one call installed an entry with its own schema and an entry
\* without, under a Loader schema of another kind
C9_Witness ==
    /\ Returned(<<"Ok">>)
    /\ schema.kind = "Legacy"
    /\ \E m, n \in 1..Len(entries) :
          /\ entries[m].schema # <<>>
          /\ entries[n].schema = <<>>
          /\ entries[m].kernel.version = entries[n].kernel.version
          /\ ConfOf(entries[m]) \in DOMAIN disk
          /\ ConfOf(entries[n]) \in DOMAIN disk


\* C10: the effective $BOOT is the XBOOTLDR when there is one, else the ESP:
\* Loader::new makes boot_root mounts.xbootldr if set, else mounts.esp, and
\* fails with MissingMount("ESP (/efi)") without both; boot_partition
\* returns the BootEnvironment's xbootldr if set, else its esp
C10_BootIsXbootldrElseEsp ==
    /\ (new_ret # <<>> /\ bootenv.firmware = "Uefi") =>
          /\ mounts.xbootldr # <<>> => (new_ret = <<"Ok">> /\ boot_root = mounts.xbootldr[1])
          /\ (mounts.xbootldr = <<>> /\ mounts.esp # <<>>) =>
                (new_ret = <<"Ok">> /\ boot_root = mounts.esp[1])
          /\ (mounts.xbootldr = <<>> /\ mounts.esp = <<>>) =>
                new_ret = <<"Err", "MissingMount", "ESP (/efi)">>
    /\ boot_part # <<>> =>
          /\ bootenv.xbootldr # <<>> => boot_part[1] = bootenv.xbootldr
          /\ bootenv.xbootldr = <<>> => boot_part[1] = bootenv.esp

\* C10 witness: an environment with ESP and XBOOTLDR whose boot_partition
\* was taken, and a Loader built on mounts that hold both
C10_Witness ==
    /\ boot_part # <<>>
    /\ bootenv.xbootldr # <<>>
    /\ bootenv.esp # <<>>
    /\ new_ret = <<"Ok">>
    /\ mounts.xbootldr # <<>>
    /\ mounts.esp # <<>>

----------------------------------------------------------------------------
(* Claims about loader.conf, the loader config text and Entry::id *)

\* the pattern between the quotes of the `default` line of a loader.conf,
\* None when the text has no such line
DefaultGlob(text) ==
    LET ls == SelectSeq(Lines(text), LAMBDA l : l # <<>> /\ l[1] = "default ")
    IN  IF ls = <<>> \/ Len(ls[1]) < 3 THEN None
        ELSE Some(SubSeq(ls[1], 3, Len(ls[1]) - 1))

\* the boot loader's glob match of an entry id, for a pattern whose only
\* wildcard is a trailing "*"
GlobMatches(pattern, s) ==
    IF pattern # <<>> /\ pattern[Len(pattern)] = "*"
    THEN StartsWith(s, SubSeq(pattern, 1, Len(pattern) - 1))
    ELSE s = pattern

\* the id of a .conf file: its basename without the ".conf" suffix
ConfId(f) == SubSeq(f[Len(f)], 1, Len(f[Len(f)]) - 1)

\* C11 as claimed: after sync and sync_entries, the default pattern of
\* loader.conf matches the id of every entry installed under the Loader's
\* own schema, whatever the schema variant
C11_DefaultPatternMatchesIds ==
    (sync_ret = <<"Ok">> /\ Returned(<<"Ok">>)) =>
        /\ LoaderConfPath(boot_root) \in DOMAIN disk
        /\ IsSome(DefaultGlob(disk[LoaderConfPath(boot_root)]))
        /\ \A n \in 1..Len(entries) :
              entries[n].schema = <<>> =>
                  /\ ConfOf(entries[n]) \in DOMAIN disk
                  /\ GlobMatches(DefaultGlob(disk[LoaderConfPath(boot_root)])[1],
                                 ConfId(ConfOf(entries[n])))

\* a text made of the given lines, each ended by a newline
TextOf(lines) == Concat([k \in 1..Len(lines) |-> lines[k] \o <<"\n">>])

\* the `options` line sync_entries gives an entry
OptionsLine(e) == <<"options ">> \o FullCmdline(base_cmdline, exclusions, e)

\* one `initrd` line per initrd of the kernel, in kernel.initrd order
InitrdLines(e) ==
    [k \in 1..Len(e.kernel.initrd) |-> InitrdLine(InstalledInitrdOf(e, e.kernel.initrd[k]))]

\* C12 as claimed: the .conf of an entry whose kernel has initrds is exactly
\* the title line, the linux line, one initrd line per initrd in order and
\* the options line, with no other line in between
C12_ConfTextWithInitrds ==
    Returned(<<"Ok">>) =>
        \A n \in 1..Len(entries) :
            (entries[n].kernel.initrd # <<>> /\ LastWithItsId(n)) =>
                /\ ConfOf(entries[n]) \in DOMAIN disk
                /\ disk[ConfOf(entries[n])]
                      = TextOf(<<<<"title ">> \o TitleOf(entries[n]),
                                 LinuxLine(InstalledKernelOf(entries[n]))>>
                               \o InitrdLines(entries[n])
                               \o <<OptionsLine(entries[n])>>)

\* C13: the .conf of an entry whose kernel has no initrd is the title line,
\* the linux line, exactly one blank line and the options line: one blank
\* line lies between `linux` and `options`, and there is no initrd line
C13_BlankLineWithoutInitrds ==
    Returned(<<"Ok">>) =>
        \A n \in 1..Len(entries) :
            (entries[n].kernel.initrd = <<>> /\ LastWithItsId(n)) =>
                /\ ConfOf(entries[n]) \in DOMAIN disk
                /\ disk[ConfOf(entries[n])]
                      = TextOf(<<<<"title ">> \o TitleOf(entries[n]),
                                 LinuxLine(InstalledKernelOf(entries[n])),
                                 <<>>,
                                 OptionsLine(entries[n])>>)
                /\ \A k \in 1..Len(Lines(disk[ConfOf(entries[n])])) :
                      ~StartsWith(Lines(disk[ConfOf(entries[n])])[k], <<"initrd ">>)

\* C13 witness: a call installed an entry whose kernel has no initrd, and
\* its .conf with its options line is on $BOOT
C13_Witness ==
    /\ Returned(<<"Ok">>)
    /\ \E n \in 1..Len(entries) :
          /\ entries[n].kernel.initrd = <<>>
          /\ LastWithItsId(n)
          /\ ConfOf(entries[n]) \in DOMAIN disk
          /\ HasLine(disk[ConfOf(entries[n])], OptionsLine(entries[n]))

\* C14 as claimed: Entry::id is {n}-{version}-{state_id} with a state id and
\* {n}-{version} without, n being os_release.name for a Legacy effective
\* schema and the os id otherwise, and two entries under the same effective
\* schema have the same id only if they agree in version and state id
C14_IdFormatAndInjective ==
    \A m, n \in 1..Len(entries) :
        LET e == entries[n]
            name == IF Eff(e).kind = "Legacy" THEN Eff(e).name ELSE Eff(e).id
        IN  /\ e.state_id # <<>> =>
                  id(e, schema) = name \o <<"-">> \o e.kernel.version
                                       \o <<"-">> \o FmtI32(e.state_id[1])
            /\ e.state_id = <<>> => id(e, schema) = name \o <<"-">> \o e.kernel.version
            /\ (Eff(entries[m]) = Eff(e) /\ id(entries[m], schema) = id(e, schema)) =>
                  /\ entries[m].kernel.version = e.kernel.version
                  /\ entries[m].state_id = e.state_id

----------------------------------------------------------------------------
(* Claims about BootEnvironment::new *)

\* the BLS lookup yields no ESP: not made in image mode, Unsupported on
\* BIOS, or failing
BlsYieldsNone == env_in.root = "Image" \/ ~env_in.efi \/ env_in.bls[1] # "Ok"

\* the GPT scan yields no ESP: no parent disk is known, or the scan fails
GptYieldsNone == env_in.disk_parent = <<>> \/ env_in.gpt[1] # "Ok"

\* C15: a BootEnvironment that new returned with firmware Uefi has its esp
\* set, and on UEFI when neither the BLS lookup nor the GPT scan yields an
\* ESP (also when no parent disk is known) new returns Err(NoEsp)
C15_UefiHasEspOrNoEsp ==
    /\ (env_ret = <<"Ok">> /\ bootenv.firmware = "Uefi") => bootenv.esp # <<>>
    /\ (env_ret # <<>> /\ env_in.efi /\ BlsYieldsNone /\ GptYieldsNone) =>
          /\ env_ret = <<"Err", "NoEsp">>
          /\ env_pc = "failed"

\* C15 witness: on UEFI the BLS lookup failed and no parent disk is known,
\* and new has failed with NoEsp
C15_Witness ==
    /\ env_ret = <<"Err", "NoEsp">>
    /\ env_in.efi
    /\ env_in.root = "Native"
    /\ env_in.bls[1] = "Err"
    /\ env_in.disk_parent = <<>>

\* new has made all its ESP lookups
EspDetermined == env_pc \in {"check", "xbootldr", "built", "failed"}

\* C16: in image mode new never reads the boot loader's EFI variables and
\* the ESP is what the GPT scan of the parent disk yields; in native mode the
\* BLS lookup comes first, the GPT scan is made only if it failed, and when
\* the BLS lookup fails but the GPT scan yields an ESP new does not fail
C16_LayeredEspLookup ==
    EspDetermined =>
        /\ env_in.root = "Image" =>
              /\ "bls" \notin Range(env_log)
              /\ "efivars" \notin Range(env_log)
              /\ bootenv.esp = IF GptYieldsNone THEN None ELSE Some(env_in.gpt[2])
              /\ env_in.disk_parent # <<>> => env_log = <<"gpt">>
        /\ env_in.root = "Native" =>
              /\ env_log # <<>> /\ env_log[1] = "bls"
              /\ "gpt" \in Range(env_log) => BlsYieldsNone
              /\ ~BlsYieldsNone => bootenv.esp = Some(env_in.bls[2])
              /\ (BlsYieldsNone /\ ~GptYieldsNone) =>
                    /\ bootenv.esp = Some(env_in.gpt[2])
                    /\ env_ret # <<"Err", "NoEsp">>
                    /\ env_pc # "failed"

\* C16 witness: in native mode on UEFI the BLS lookup failed, the GPT scan
\* found the ESP, and new returned a BootEnvironment
C16_Witness ==
    /\ env_ret = <<"Ok">>
    /\ env_in.root = "Native"
    /\ env_in.efi
    /\ env_log = <<"bls", "efivars", "gpt">>
    /\ bootenv.esp = Some(GptEspDevice)

----------------------------------------------------------------------------
(* Claims about kernel discovery *)

\* the kernels of the discovery result, none while there is no result
Discovered == IF disc_ret = <<>> THEN <<>> ELSE disc_ret[1].kernels

\* ascending by lowercased path
SortedByLowerPath(aux) == \A i, j \in 1..Len(aux) : i < j => LowerKeyLeq(aux[i], aux[j])

\* C17: for every path sequence and schema variant, each kernel that
\* discover_system_kernels returns has a non-empty version, has initrd and
\* extras sorted ascending by lowercased path, and shares its version with
\* no other kernel of the result
C17_DiscoveredKernelsWellFormed ==
    \A i \in 1..Len(Discovered) :
        /\ Discovered[i].version # <<>>
        /\ SortedByLowerPath(Discovered[i].initrd)
        /\ SortedByLowerPath(Discovered[i].extras)
        /\ \A j \in 1..Len(Discovered) : i # j => Discovered[i].version # Discovered[j].version

\* the position of a path in the discovery input
PathIndex(p) == CHOOSE k \in 1..Len(disc_paths) : disc_paths[k] = p

\* C17 witness: a kernel was discovered whose two extras stand in the result
\* in the reverse of their order in the input and of their order as paths
C17_Witness ==
    /\ disc_pc = "discovered"
    /\ disc_ret[1].ok = "Ok"
    /\ \E i \in 1..Len(Discovered) :
          /\ Len(Discovered[i].extras) = 2
          /\ PathIndex(Discovered[i].extras[1].path) > PathIndex(Discovered[i].extras[2].path)
          /\ ~PathLeq(Discovered[i].extras[1].path, Discovered[i].extras[2].path)

\* the input files whose basename is vmlinuz
VmlinuzFiles == {p \in Range(disc_paths) : p # <<>> /\ p[Len(p)] = <<"vmlinuz">>}

\* the input paths at or below the directory of a kernel's image that
\* blsforme_kernels looks at: neither a vmlinuz nor a path that ends in the
\* kernel's version
AssetsOf(k) ==
    {p \in Range(disc_paths) : /\ PathStartsWith(p, SubSeq(k.image, 1, Len(k.image) - 1))
                               /\ p[Len(p)] # <<"vmlinuz">>
                               /\ p[Len(p)] # k.version}

\* the kind the claim gives a basename, "" for none
KindByBasename(n) ==
    CASE n = <<"System.map">> -> "SystemMap"
      [] n = <<"boot.json">> -> "BootJson"
      [] n = <<"config">> -> "Config"
      [] n # <<"System.map">> /\ n # <<"boot.json">> /\ n # <<"config">>
           /\ n[Len(n)] = ".initrd" -> "InitRd"
      [] n # <<"System.map">> /\ n # <<"boot.json">> /\ n # <<"config">>
           /\ n[Len(n)] # ".initrd" /\ n[Len(n)] = ".cmdline" -> "Cmdline"
      [] OTHER -> ""

\* a kernel's initrd holds exactly the InitRd files among its assets, its
\* extras exactly the files of the other kinds, each with its kind
ClassifiedByBasename(k) ==
    /\ Range(k.initrd) = {AuxiliaryFile(p, "InitRd") :
                             p \in {q \in AssetsOf(k) : KindByBasename(q[Len(q)]) = "InitRd"}}
    /\ Range(k.extras) = {AuxiliaryFile(p, KindByBasename(p[Len(p)])) :
                             p \in {q \in AssetsOf(k) : KindByBasename(q[Len(q)]) \notin {"", "InitRd"}}}

\* the variant inspect_root leaves a kernel with: that of the first boot.json
\* among its extras, else what discovery gave it
VariantFromBootJson(k) ==
    IF \E i \in 1..Len(k.extras) : k.extras[i].kind = "BootJson"
    THEN k.variant = Some(BootJSON(BootJsonText(BootJsonOf(k)[1]))[1].variant)
    ELSE k.variant = None

\* the image is an input vmlinuz and the version is the name of its directory
ImageAndVersion(k) == k.image \in VmlinuzFiles /\ k.version = k.image[Len(k.image) - 1]

\* C18 as claimed: Blsforme/OsInfo discovery yields one kernel per input
\* file whose basename is vmlinuz, its version the name of the parent
\* directory, the files under that parent classified by basename, and the
\* variant taken from the boot.json among them
C18_Original ==
    (schema.kind # "Legacy" /\ disc_ret # <<>> /\ disc_ret[1].ok = "Ok") =>
        /\ \A p \in VmlinuzFiles :
              Cardinality({i \in 1..Len(Discovered) : Discovered[i].image = p}) = 1
        /\ \A i \in 1..Len(Discovered) :
              /\ ImageAndVersion(Discovered[i])
              /\ ClassifiedByBasename(Discovered[i])
              /\ disc_pc = "inspected" => VariantFromBootJson(Discovered[i])

\* C18 amended: Blsforme/OsInfo discovery yields one kernel per name of a
\* directory holding an input vmlinuz (of several such vmlinuz the last in
\* path order is the image), its version that name; the input paths at or
\* below the image's directory other than vmlinuz files and paths ending in
\* the version are classified by basename; inspect_root then sets the
\* variant to that of the first boot.json among the extras
C18_OneKernelPerVersionDirName ==
    (schema.kind # "Legacy" /\ disc_ret # <<>> /\ disc_ret[1].ok = "Ok") =>
        /\ \A p \in VmlinuzFiles :
              Cardinality({i \in 1..Len(Discovered) : Discovered[i].version = p[Len(p) - 1]}) = 1
        /\ \A i \in 1..Len(Discovered) :
              /\ ImageAndVersion(Discovered[i])
              /\ \A p \in VmlinuzFiles :
                    p[Len(p) - 1] = Discovered[i].version => PathLeq(p, Discovered[i].image)
              /\ ClassifiedByBasename(Discovered[i])
              /\ disc_pc = "inspected" => VariantFromBootJson(Discovered[i])

\* C18 witness: inspect_root has set the variant of a kernel that was
\* discovered with its boot.json and an initrd
C18_Witness ==
    /\ schema.kind # "Legacy"
    /\ disc_pc = "inspected"
    /\ \E i \in 1..Len(Discovered) :
          /\ Discovered[i].variant = Some(<<"w">>)
          /\ Discovered[i].initrd # <<>>

\* a file name starts with `initrd-{namespace}.` and has no "." after it
IsIndependentInitrd(namespace, n) ==
    /\ StartsWith(n, <<"initrd-">> \o namespace \o <<".">>)
    /\ \A k \in (Len(namespace) + 3)..Len(n) : n[k] # "."

\* the auxiliary files the claim gives a Legacy kernel of variant V and
\* version R among the input paths, by kind
LegacyFilesOf(namespace, V, R, kind) ==
    {p \in Range(disc_paths) :
        LET n == p[Len(p)]
        IN  CASE kind = "SystemMap" -> n = <<"System.map-">> \o R \o <<".">> \o V
              [] kind = "Cmdline" -> n = <<"cmdline-">> \o R \o <<".">> \o V
              [] kind = "Config" -> n = <<"config-">> \o R \o <<".">> \o V
              [] kind = "InitRd" ->
                    \/ StartsWith(n, <<"initrd-">> \o namespace \o <<".">> \o V \o <<".">> \o R)
                    \/ IsIndependentInitrd(namespace, n)}

\* C19: Legacy discovery gives each kernel of variant V and version R
\* exactly System.map-R.V, cmdline-R.V and config-R.V as extras of their
\* kinds, and as initrd exactly the files whose name starts with
\* initrd-{namespace}.V.R and the version-independent initrds
\* initrd-{namespace}.X, X without ".", which every kernel gets
C19_LegacyAttachments ==
    (schema.kind = "Legacy" /\ disc_ret # <<>> /\ disc_ret[1].ok = "Ok") =>
        \A i \in 1..Len(Discovered) :
            LET k == Discovered[i]
                Files(kind) == LegacyFilesOf(schema.namespace, k.variant[1], k.version, kind)
            IN  /\ Range(k.initrd) = {AuxiliaryFile(p, "InitRd") : p \in Files("InitRd")}
                /\ Len(k.initrd) = Cardinality(Files("InitRd"))
                /\ Range(k.extras) =
                      UNION {{AuxiliaryFile(p, kind) : p \in Files(kind)} :
                                kind \in {"SystemMap", "Cmdline", "Config"}}
                /\ Len(k.extras) = Cardinality(Range(k.extras))

\* C19 witness: two kernels were discovered and both have the
\* version-independent initrd
C19_Witness ==
    /\ schema.kind = "Legacy"
    /\ disc_ret # <<>>
    /\ disc_ret[1].ok = "Ok"
    /\ Len(Discovered) = 2
    /\ \A i \in 1..2 :
          Discovered[i].initrd = <<AuxiliaryFile(LibFile(<<"initrd-", "c", ".", "x">>), "InitRd")>>

----------------------------------------------------------------------------
(* Claims about the rootfs probe *)

\* the devices of a composite: its root and its children
CompositeDevices(b) == {[name |-> b.name, mountpoint |-> b.mountpoint]}
                       \cup {[name |-> b.children[k].name, mountpoint |-> b.children[k].mountpoint] :
                                k \in 1..Len(b.children)}

\* C20 as claimed: in the composite that get_rootfs_device(path) returns the
\* device of the mountpoint has the mountpoint recorded and no other device
\* has one, with a backing chain and without
C20_OnlyLeafHasMountpoint ==
    (probe_ret # <<>> /\ probe_ret[1] = "Ok") =>
        LET leaf == PathStr(DevPath(probe_in.device[2]))
        IN  /\ \E d \in CompositeDevices(probe_ret[2]) :
                  d.name = leaf /\ d.mountpoint = Some(probe_in.path)
            /\ \A d \in CompositeDevices(probe_ret[2]) : d.name # leaf => d.mountpoint = None

----------------------------------------------------------------------------
(* Claims about failures, the options line and cleanup *)

\* sync has just returned the error named
SyncFailsWith(kind) == sync_ret = <<>> /\ sync_ret' # <<>> /\ sync_ret'[1] = "Err" /\ sync_ret'[2] = kind

\* C21: a sync that fails with MissingFile (no asset path ends in
\* systemd-bootx64.efi) or with MissingMount (no ESP mounted) has made no
\* write: every file of the ESP and of boot_root, loader/loader.conf
\* included, is as it was
C21_SyncFailsBeforeAnyWrite ==
    [][(SyncFailsWith("MissingFile") \/ SyncFailsWith("MissingMount")) => disk' = disk]_vars

\* C21 witness: sync has failed with MissingMount on a Loader whose only
\* mount is the XBOOTLDR, which holds files of earlier installations
C21_Witness ==
    /\ sync_ret = <<"Err", "MissingMount", "ESP (/efi)">>
    /\ mounts.esp = <<>>
    /\ mounts.xbootldr # <<>>
    /\ boot_root = mounts.xbootldr[1]
    /\ disk # EmptyDisk

RECURSIVE SpaceJoined(_)
\* the items of a list, one space between each two
SpaceJoined(items) ==
    IF items = <<>> THEN <<>>
    ELSE IF Len(items) = 1 THEN items[1]
    ELSE items[1] \o <<" ">> \o SpaceJoined(Tail(items))

RECURSIVE KeptSnippets(_, _)
\* the snippets of a cmdline whose name is not excluded, in cmdline order
KeptSnippets(cmdline, excluded) ==
    IF cmdline = <<>> THEN <<>>
    ELSE IF \E k \in 1..Len(excluded) : excluded[k] = cmdline[1].name
    THEN KeptSnippets(Tail(cmdline), excluded)
    ELSE <<cmdline[1].snippet>> \o KeptSnippets(Tail(cmdline), excluded)

\* the text after "options " in a loader config
OptionsText(text) ==
    LET ls == SelectSeq(Lines(text), LAMBDA l : l # <<>> /\ l[1] = "options ")
    IN  IF Len(ls) # 1 THEN None ELSE Some(Tail(ls[1]))

\* C22: the options text written for an entry is the base cmdline items in
\* order, followed by the snippets of the entry, in entry.cmdline order,
\* whose name is not in the exclusion set, joined by single spaces: no
\* excluded snippet is in it and no base cmdline item is filtered
C22_OptionsAreBaseThenKeptSnippets ==
    [][Len(installed_entries') = Len(installed_entries) + 1 =>
        LET e == entries[cur]
        IN  /\ ConfOf(e) \in DOMAIN disk'
            /\ OptionsText(disk'[ConfOf(e)])
                  = Some(SpaceJoined(base_cmdline \o KeptSnippets(e.cmdline, exclusions)))
      ]_vars

\* C22 witness: an entry with two snippets, the first of them excluded, was
\* installed with a base cmdline that holds an item equal to the excluded name
C22_Witness ==
    /\ Returned(<<"Ok">>)
    /\ exclusions # <<>>
    /\ \E k \in 1..Len(base_cmdline) : base_cmdline[k] = exclusions[1]
    /\ \E n \in 1..Len(entries) :
          /\ Len(entries[n].cmdline) = 2
          /\ entries[n].cmdline[1].name = exclusions[1]
          /\ LastWithItsId(n)
          /\ ConfOf(entries[n]) \in DOMAIN disk
          /\ OptionsText(disk[ConfOf(entries[n])])
                = Some(SpaceJoined(base_cmdline \o <<entries[n].cmdline[2].snippet>>))

\* what cleanup is to delete: the .conf files with a known prefix that were
\* not written in this call, and the kernel directories of a known
\* namespace that were not installed in this call
StaleConfs(d) == {f \in KnownConfs(d) : ~WrittenInThisCall(f)}
StaleKernelDirs(d) == {dir \in KnownKernelDirs(d) : ~InstalledInThisCall(dir)}

\* the number of calls of op in this sync_entries call that had the outcome ok
CountEffects(op, ok) == Cardinality({k \in 1..Len(effects) : effects[k].op = op /\ effects[k].ok = ok})

RemovalFailed == HasEffect("remove_file", FALSE) \/ HasEffect("remove_dir_all", FALSE)

\* C23: cleanup_stale_entries is best-effort: a sync_entries call in which
\* a deletion failed returns Ok, and on return every stale .conf and every
\* stale kernel directory has been attempted, so that only those whose
\* deletion failed are left
C23_CleanupIsBestEffort ==
    /\ (pc = "done" /\ RemovalFailed) => ret = <<"Ok">>
    /\ Returned(<<"Ok">>) =>
          /\ Cardinality(StaleConfs(disk)) = CountEffects("remove_file", FALSE)
          /\ Cardinality(StaleKernelDirs(disk)) = CountEffects("remove_dir_all", FALSE)
          /\ Cardinality(StaleConfs(disk0)) = CountEffects("remove_file", FALSE) + CountEffects("remove_file", TRUE)
          /\ Cardinality(StaleKernelDirs(disk0)) = CountEffects("remove_dir_all", FALSE) + CountEffects("remove_dir_all", TRUE)

\* C23 witness: a call returned Ok in which the deletion of a stale .conf
\* failed and a later deletion of another .conf and of a kernel directory
\* were made
C23_Witness ==
    /\ Returned(<<"Ok">>)
    /\ \E j, k, m \in 1..Len(effects) :
          /\ j < k
          /\ k < m
          /\ effects[j] = Effect("remove_file", 0, FALSE)
          /\ effects[k] = Effect("remove_file", 0, TRUE)
          /\ effects[m] = Effect("remove_dir_all", 0, TRUE)
    /\ StaleConfs(disk) # {}

\* the files directly in {boot_root}/loader/entries
EntriesFiles(d) ==
    {f \in DOMAIN d : /\ Len(f) = Len(boot_root) + 3
                      /\ SubSeq(f, 1, Len(f) - 1) = boot_root \o <<<<"loader">>, <<"entries">>>>}

HasKnownPrefix(f) == \E p \in KnownPrefixes : StartsWith(f[Len(f)], p)

\* C24: cleanup_stale_entries deletes a file of loader/entries if and only
\* if its name starts with a prefix of the prefix set and it is not the
\* loader_conf of an entry installed in this call: each step of cleanup
\* deletes only such files and leaves every other file of the directory as
\* it is, and when cleanup has returned without a failed removal no such
\* file is left, the entry of another OS whose id begins with a prefix included
C24_CleanupDeletesByPrefix ==
    /\ [][pc = "remove" =>
            \A f \in EntriesFiles(disk) :
                IF HasKnownPrefix(f) /\ ~WrittenInThisCall(f)
                THEN f \in DOMAIN disk' => disk'[f] = disk[f]
                ELSE f \in DOMAIN disk' /\ disk'[f] = disk[f]]_vars
    /\ [](CleanedUp =>
            /\ \A f \in EntriesFiles(disk) : ~(HasKnownPrefix(f) /\ ~WrittenInThisCall(f))
            /\ \A f \in EntriesFiles(disk0) :
                  (HasKnownPrefix(f) /\ ~WrittenInThisCall(f)) <=> f \notin DOMAIN disk)

\* C24 witness: under the id a, cleanup has deleted the entry ab-5.conf of
\* another OS and has left a file of loader/entries that starts with no
\* known prefix
C24_Witness ==
    /\ CleanedUp
    /\ schema.kind = "Blsforme"
    /\ ConfOf(PlainEntry(schema, <<"5">>, Some(OtherSchema))) \in DOMAIN disk0
    /\ ConfOf(PlainEntry(schema, <<"5">>, Some(OtherSchema))) \notin DOMAIN disk
    /\ \E f \in EntriesFiles(disk0) : ~HasKnownPrefix(f) /\ f \in DOMAIN disk /\ disk[f] = disk0[f]
    /\ \E n \in 1..Len(entries) : HasKnownPrefix(ConfOf(entries[n])) /\ ConfOf(entries[n]) \in DOMAIN disk

----------------------------------------------------------------------------
(* Claims about Legacy discovery, Bootloader::new and installed_kernels *)

\* a basename {namespace}.{variant}.{full_version} with a "-" in full_version
IsLegacyKernelName(namespace, fname) ==
    /\ StartsWith(fname, namespace \o <<".">>)
    /\ \E d \in (Len(namespace) + 2)..Len(fname) :
          /\ fname[d] = "."
          /\ \A j \in (Len(namespace) + 2)..(d - 1) : fname[j] # "."
          /\ \E k \in (d + 1)..Len(fname) : fname[k] = "-"

\* C25 as claimed: Legacy discovery returns Ok for every input and never
\* aborts; a file is the image of a kernel only if its basename is
\* {namespace}.{variant}.{full_version} with a "-" in full_version, and
\* every other file is ignored, one whose basename starts with the
\* namespace without a "." after it or is the namespace alone included
C25_LegacyDiscoveryNeverAborts ==
    (schema.kind = "Legacy" /\ disc_pc = "discovered") =>
        /\ disc_ret[1].ok = "Ok"
        /\ \A i \in 1..Len(Discovered) :
              LET image == Discovered[i].image
              IN  /\ image \in Range(disc_paths)
                  /\ IsLegacyKernelName(schema.namespace, image[Len(image)])

\* C26 as claimed: BootEnvironment::new and Bootloader::new return a value
\* or a typed error, Bootloader::new also for the Firmware::Bios that
\* BootEnvironment::new yields on a system without UEFI
C26_NewReturnsValueOrError ==
    /\ env_ret # <<>> => env_ret[1] \in {"Ok", "Err"}
    /\ new_ret # <<>> => new_ret[1] \in {"Ok", "Err"}

\* the .conf, the vmlinuz and the initrd copies of an entry are on $BOOT
ArtefactsPresent(e) ==
    /\ ConfOf(e) \in DOMAIN disk
    /\ InstalledKernelOf(e) \in DOMAIN disk
    /\ \A k \in 1..Len(e.kernel.initrd) : InstalledInitrdOf(e, e.kernel.initrd[k]) \in DOMAIN disk

\* C27: cleanup_stale_entries deletes nothing that the same sync_entries
\* call installed: while cleanup runs and when sync_entries has returned Ok,
\* every entry of the list, whatever the schema, with or without a schema of
\* its own and with or without state id, has its .conf, its vmlinuz and its
\* initrd copies on $BOOT
C27_CleanupKeepsWhatWasInstalled ==
    (pc = "remove" \/ Returned(<<"Ok">>)) => \A n \in 1..Len(entries) : ArtefactsPresent(entries[n])

\* C27 witness: a call that installed an entry with a schema of its own and
\* an entry with a state id, one of them with an initrd, has returned after
\* cleanup removed a stale .conf and a stale kernel directory
C27_Witness ==
    /\ Returned(<<"Ok">>)
    /\ HasEffect("remove_file", TRUE)
    /\ HasEffect("remove_dir_all", TRUE)
    /\ \E m, n \in 1..Len(entries) :
          /\ entries[m].schema # <<>>
          /\ entries[n].state_id # <<>>
          /\ entries[n].kernel.initrd # <<>>
          /\ ArtefactsPresent(entries[m])
          /\ ArtefactsPresent(entries[n])

InstallFailed == HasEffect("copy", FALSE) \/ HasEffect("conf", FALSE)

\* C28: when install fails for the k-th entry, sync_entries returns that
\* error at once: the failed call is the last file-system call of
\* sync_entries, so no later entry is installed and cleanup_stale_entries is
\* not run, no file that was on $BOOT before the call is deleted, and the
\* artefacts of the entries before k are in place
C28_InstallFailureStopsAtOnce ==
    InstallFailed =>
        /\ pc = "done"
        /\ ret # <<>>
        /\ ret[1] = "Err"
        /\ ~effects[Len(effects)].ok
        /\ effects[Len(effects)].entry = cur
        /\ \A k \in 1..(Len(effects) - 1) :
              IsInstallOp(effects[k]) /\ effects[k].ok /\ effects[k].entry <= cur
        /\ Len(installed_entries) = cur - 1
        /\ DOMAIN disk0 \subseteq DOMAIN disk
        /\ \A n \in 1..(cur - 1) : ArtefactsPresent(entries[n])

\* C28 witness: install of the second of two entries failed, on a $BOOT
\* that held stale entries and kernel directories, which are still there
C28_Witness ==
    /\ InstallFailed
    /\ Len(entries) = 2
    /\ cur = 2
    /\ StaleConfs(disk0) # {}
    /\ StaleKernelDirs(disk0) # {}
    /\ StaleConfs(disk) = StaleConfs(disk0)
    /\ ArtefactsPresent(entries[1])

\* the kernel versions of the entries of the call
EntryVersions == {entries[n].kernel.version : n \in 1..Len(entries)}

\* C29 as claimed: after a successful sync_entries whose entries have no
\* schema of their own, installed_kernels returns exactly one Kernel for
\* each kernel version of the entries and no other, under every schema
\* variant, Legacy included
C29_InstalledKernelsRoundTrip ==
    (/\ Returned(<<"Ok">>)
     /\ kernels_ret # <<>>
     /\ \A n \in 1..Len(entries) : entries[n].schema = <<>>) =>
        /\ kernels_ret[1] = "Ok"
        /\ {kernels_ret[2][k].version : k \in 1..Len(kernels_ret[2])} = EntryVersions
        /\ Len(kernels_ret[2]) = Cardinality(EntryVersions)

\* C30 as claimed: Legacy discovery drops no kernel: every input file whose
\* basename is {namespace}.{variant}.{full_version} with a "-" in
\* full_version is the image of exactly one returned Kernel, also when two
\* such files differ in the variant and agree in full_version
C30_LegacyDropsNoKernel ==
    (schema.kind = "Legacy" /\ disc_pc = "discovered" /\ disc_ret[1].ok = "Ok") =>
        \A p \in Range(disc_paths) :
            IsLegacyKernelName(schema.namespace, p[Len(p)]) =>
                Cardinality({i \in 1..Len(Discovered) : Discovered[i].image = p}) = 1

====
